---- MODULE Spec2Model ----
(***************************************************************************)
(* Model of the construction-template deployment orchestrator              *)
(* (scripts/deploy-construction.js).  One run of deployConstructionTemplate *)
(* is a sequential program; every await of a remote call, a file operation *)
(* or a pacing sleep is one step.  The outcome of each remote call and     *)
(* file operation is chosen by the environment.                            *)
(*                                                                         *)
(* calls is the log a mock remote client would keep: every remote call     *)
(* and every pacing sleep, in issue order.  The remote id handed back by   *)
(* an acknowledged create call is the index of that call in the log.       *)
(* Wall-clock time is the length of that log.                              *)
(***************************************************************************)
EXTENDS Integers, Sequences, FiniteSets, TLC

VARIABLES
    pc,               \* control point of deployConstructionTemplate
    deploymentState,  \* the module-level deploymentState object
    buildFile,        \* loadBuildArtifacts: local buildFile
    buildPackage,     \* deployConstructionTemplate: local buildPackage
    dbIndex,          \* deployPhase1_Databases: position of the for-of loop
    parentId,         \* createDatabase: page id awaited for the parent field
    resIndex,         \* deployPhase3_SampleData: position of the for-of loop
    recIndex,         \* addSampleDataToDatabase: position of the for-of loop
    calls,            \* log of remote calls and sleeps, in issue order
    persisted,        \* dist/deployment-*.json files written so far
    cleanupLog,       \* lines printed by cleanupFailedDeployment
    thrown,           \* error in flight / error delivered to the caller
    report,           \* value returned to the caller
    run,              \* number of invocations in this process
    entry,            \* lengths of the three lists when the current run began
    files,            \* loadBuildArtifacts: local files, the listing of dist
    envTier,          \* process.env.DEPLOYMENT_TIER as initializeEnvironment last
                      \* read it, NoValue before the first read
    sampleDataEnv,    \* process.env.INCLUDE_SAMPLE_DATA as read by the step
                      \* just taken, NoValue when that step did not read it
    tool,             \* control point of the build, estimate or validation script
    options,          \* arguments of the function the script is running
    jsonFiles,        \* buildDatabaseSchemas: local jsonFiles
    fileIndex,        \* buildDatabaseSchemas: position of the for-of loop
    schemas,          \* buildDatabaseSchemas: local schemas
    package,          \* buildTemplate: local buildPackage
    result,           \* value returned or error thrown by the script's function
    dist,             \* dist/template-*.json files written by buildTemplate
    util,             \* control point of retryWithBackoff or of the health check
    retryArgs,        \* retryWithBackoff: maxRetries and delay
    attempt,          \* retryWithBackoff: loop variable i
    retryLog,         \* calls of fn and timers of retryWithBackoff, in order
    retryResult,      \* settlement of the promise retryWithBackoff returned
    checks,           \* performHealthCheck: local checks
    checkLog,         \* names of the checks that have run, in order
    healthReport,     \* value performHealthCheck or quickHealthCheck returned
    reportFile,       \* content of health-check-report.json
    exitCode          \* argument of process.exit

\* state of the deployment orchestrator
deployVars == <<pc, deploymentState, buildFile, buildPackage, dbIndex, parentId,
                resIndex, recIndex, calls, persisted, cleanupLog, thrown, report,
                run, entry, sampleDataEnv, envTier, files>>

\* state of the template builder, the cost estimator and the input validator
toolVars == <<tool, options, jsonFiles, fileIndex, schemas, package, result, dist>>

\* state of retryWithBackoff and of the health check script
utilVars == <<util, retryArgs, attempt, retryLog, retryResult, checks, checkLog,
              healthReport, reportFile, exitCode>>

vars == <<deployVars, toolVars, utilVars>>

----------------------------------------------------------------------------
(* Bounds of the model *)

MaxSchemas == 3          \* longest schema list of a build package
MaxRecordFailures == 1   \* failed sample-record creations per run
MaxRuns == 2             \* invocations per process (SpecReuse only)
MaxRerunSchemas == 1     \* longest schema list in a run after the first
MaxCarriedCalls == 5     \* most calls logged in a process that is invoked again

----------------------------------------------------------------------------
(* Program constants *)

DatabasePauseMs == 1000
RecordPauseMs == 500
SampleRecordLimit == 5
DefaultTier == "professional"

StepOrder ==
    << "environment_init", "artifacts_loaded", "notion_connected",
       "databases_deployed", "views_deployed", "sample_data_deployed",
       "integrations_deployed", "deployment_finalized" >>

\* templateConfigs.starter.databases, in declared order
StarterDatabases == << "projects", "tasks", "clients", "documents", "team-members" >>

----------------------------------------------------------------------------
(* Inputs *)

NoValue == [none |-> TRUE]
NoError == [none |-> TRUE]
RemoteErrorMessage == "remote error"

ClientNames == {"", "Acme Co"}
Tokens == {"", "secret_token"}
TierEnvValues == {"", "starter"}
SampleDataEnvValues == {"", "false", "true"}

\* A file of dist: template-<tier>-build-<stamp>.<ext>
DistFile(t, s, e) == [prefix |-> "template", tier |-> t, stamp |-> s, ext |-> e]

DistListings ==
    { {},
      { DistFile("starter", 1, "json") },
      { DistFile("starter", 1, "json"), DistFile("starter", 2, "json"),
        DistFile("professional", 1, "json") },
      { DistFile("professional", 2, "json"), DistFile("starter", 3, "txt") },
      { DistFile("starter", 9, "json"), DistFile("starter", 10, "json") } }

\* Seed tables: resource-type name -> number of seed records, -1 when the
\* table has no list under that name.
SeedLength(table, name) == IF name \in DOMAIN table THEN table[name] ELSE -1

StarterSeeds == [projects |-> 2, tasks |-> 10, clients |-> 1]
SparseSeeds == [projects |-> 0, tasks |-> 6]
SampleTables == {NoValue, StarterSeeds, SparseSeeds}

SchemaList(n) == [x \in 1..n |-> [name |-> StarterDatabases[x]]]

Packages(file, limit) ==
    { [client |-> "Acme Co", tier |-> file.tier, schemas |-> SchemaList(n),
       sampleData |-> sd] : n \in 0..limit, sd \in SampleTables }

SchemaLimit == IF run = 1 THEN MaxSchemas ELSE MaxRerunSchemas

----------------------------------------------------------------------------
(* Helpers *)

Min(a, b) == IF a < b THEN a ELSE b

IsDatabase(r) == r.type = "database"

\* resources.filter(r => r.type === type).length
CountOfType(resources, type) ==
    Cardinality({x \in 1..Len(resources) : resources[x].type = type})

Call(op, ok, what, id, parent, ms) ==
    [op |-> op, ok |-> ok, what |-> what, id |-> id, parent |-> parent, ms |-> ms]

NextId == Len(calls) + 1

FailedRecordCalls ==
    Cardinality({x \in (deploymentState.startTime + 1)..Len(calls) :
                    calls[x].op = "pages.create" /\ calls[x].what = "record"
                    /\ ~calls[x].ok})

PushStep(state, step) ==
    [state EXCEPT !.completedSteps = Append(@, step)]

PushResource(state, res) ==
    [state EXCEPT !.createdResources = Append(@, res)]

PushError(state, err) ==
    [state EXCEPT !.errors = Append(@, err)]

\* throw: control goes to the catch block of deployConstructionTemplate
Throw(message) ==
    /\ pc' = "catch"
    /\ thrown' = [message |-> message]

----------------------------------------------------------------------------
(* Initial state: the module has just been loaded *)

Init ==
    /\ pc = "idle"
    /\ deploymentState = [client |-> "", tier |-> "", startTime |-> 0,
                          completedSteps |-> <<>>, createdResources |-> <<>>,
                          errors |-> <<>>]
    /\ buildFile = NoValue
    /\ buildPackage = NoValue
    /\ dbIndex = 0
    /\ parentId = 0
    /\ resIndex = 0
    /\ recIndex = 0
    /\ calls = <<>>
    /\ persisted = <<>>
    /\ cleanupLog = <<>>
    /\ thrown = NoError
    /\ report = NoValue
    /\ run = 1
    /\ entry = [steps |-> 0, resources |-> 0, errors |-> 0]
    /\ sampleDataEnv = NoValue
    /\ envTier = NoValue
    /\ files = {}
    /\ tool = "idle"
    /\ options = NoValue
    /\ jsonFiles = <<>>
    /\ fileIndex = 0
    /\ schemas = <<>>
    /\ package = NoValue
    /\ result = NoValue
    /\ dist = <<>>
    /\ util = "idle"
    /\ retryArgs = NoValue
    /\ attempt = 0
    /\ retryLog = <<>>
    /\ retryResult = NoValue
    /\ checks = NoValue
    /\ checkLog = <<>>
    /\ healthReport = NoValue
    /\ reportFile = NoValue
    /\ exitCode = NoValue

----------------------------------------------------------------------------
(* deployConstructionTemplate: entry *)

deployConstructionTemplate ==
    /\ pc = "idle"
    /\ deploymentState' = [deploymentState EXCEPT !.startTime = Len(calls)]
    /\ entry' = [steps |-> Len(deploymentState.completedSteps),
                 resources |-> Len(deploymentState.createdResources),
                 errors |-> Len(deploymentState.errors)]
    /\ pc' = "initializeEnvironment"
    /\ UNCHANGED <<buildFile, buildPackage, dbIndex, parentId, resIndex, recIndex,
                   calls, persisted, cleanupLog, thrown, report, run,
                   sampleDataEnv, envTier, files,
                   toolVars, utilVars>>

initializeEnvironment ==
    /\ pc = "initializeEnvironment"
    /\ \E client \in ClientNames, tier \in TierEnvValues, token \in Tokens :
          /\ envTier' = [value |-> tier]
          /\ LET st == [deploymentState EXCEPT
                           !.client = client,
                           !.tier = IF tier = "" THEN DefaultTier ELSE tier]
             IN  IF client = ""
                 THEN /\ deploymentState' = st
                      /\ Throw("CLIENT_NAME environment variable is required")
                 ELSE IF token = ""
                 THEN /\ deploymentState' = st
                      /\ Throw("NOTION_TOKEN environment variable is required")
                 ELSE /\ deploymentState' = PushStep(st, "environment_init")
                      /\ pc' = "loadBuildArtifacts"
                      /\ UNCHANGED thrown
    /\ UNCHANGED <<buildFile, buildPackage, dbIndex, parentId, resIndex, recIndex,
                   calls, persisted, cleanupLog, report, run, entry,
                   sampleDataEnv, files, toolVars, utilVars>>

\* file.startsWith(`template-${tier}`) && file.endsWith('.json')
MatchesTier(file, tier) ==
    file.prefix = "template" /\ file.tier = tier /\ file.ext = "json"

RECURSIVE Digits(_)
\* the decimal digits of a build stamp, as they stand in the file name
Digits(n) == IF n < 10 THEN << n >> ELSE Append(Digits(n \div 10), n % 10)

\* a < b in the order of Array.prototype.sort on strings: the first
\* differing place decides, and a proper prefix comes first
LexLess(a, b) ==
    \E k \in 1..(Len(a) + 1) :
        /\ k <= Len(b)
        /\ \A x \in 1..(k - 1) : a[x] = b[x]
        /\ k = Len(a) + 1 \/ a[k] < b[k]

\* order of two names template-<tier>-build-<stamp>.json of one tier; the
\* '.' that ends the shorter stamp sorts before every digit
FileNameLess(f, g) == LexLess(Digits(f.stamp), Digits(g.stamp))

LatestFile_Numeric(buildFiles) ==
    CHOOSE f \in buildFiles : \A g \in buildFiles : g.stamp <= f.stamp

\* buildFiles.sort().pop()
LatestFile(buildFiles) ==
    CHOOSE f \in buildFiles : \A g \in buildFiles : ~FileNameLess(f, g)

\* loadBuildArtifacts up to the choice of buildFile
loadBuildArtifacts ==
    /\ pc = "loadBuildArtifacts"
    /\ \/ \* fs.readdir rejects
          /\ Throw("Build artifacts directory not found. Run build-template.js first.")
          /\ UNCHANGED <<buildFile, files>>
       \/ \E listing \in DistListings :
             LET buildFiles == {f \in listing : MatchesTier(f, deploymentState.tier)}
             IN  /\ files' = listing
                 /\ IF buildFiles = {}
                    THEN \* the inner throw is caught and replaced
                         /\ Throw("Build artifacts directory not found. Run build-template.js first.")
                         /\ UNCHANGED buildFile
                    ELSE /\ buildFile' = LatestFile(buildFiles)
                         /\ pc' = "readBuildFile"
                         /\ UNCHANGED thrown
    /\ UNCHANGED <<deploymentState, buildPackage, dbIndex, parentId, resIndex,
                   recIndex, calls, persisted, cleanupLog, report, run, entry,
                   sampleDataEnv, envTier, toolVars, utilVars>>

\* loadBuildArtifacts from fs.readFile to the return
readBuildFile ==
    /\ pc = "readBuildFile"
    /\ \/ \* fs.readFile rejects or JSON.parse throws
          /\ Throw("cannot read build package")
          /\ UNCHANGED <<deploymentState, buildPackage>>
       \/ \E pkg \in Packages(buildFile, SchemaLimit) :
             /\ buildPackage' = pkg
             /\ deploymentState' = PushStep(deploymentState, "artifacts_loaded")
             /\ pc' = "initializeNotionClient"
             /\ UNCHANGED thrown
    /\ buildFile' = NoValue
    /\ files' = {}
    /\ UNCHANGED <<dbIndex, parentId, resIndex, recIndex, calls, persisted,
                   cleanupLog, report, run, entry,
                   sampleDataEnv, envTier, toolVars, utilVars>>

\* variant: a failed identity probe is only logged
initializeNotionClient_Swallow ==
    /\ pc = "initializeNotionClient"
    /\ \E ok \in BOOLEAN :
          /\ calls' = Append(calls, Call("users.me", ok, "", 0, 0, 0))
          /\ deploymentState' =
                IF ok THEN PushStep(deploymentState, "notion_connected")
                ELSE deploymentState
          /\ pc' = "deployPhase1_Databases"
          /\ dbIndex' = 1
          /\ UNCHANGED thrown
    /\ UNCHANGED <<buildFile, buildPackage, parentId, resIndex, recIndex,
                   persisted, cleanupLog, report, run, entry,
                   sampleDataEnv, envTier, files,
                   toolVars, utilVars>>

initializeNotionClient ==
    /\ pc = "initializeNotionClient"
    /\ \E ok \in BOOLEAN :
          /\ calls' = Append(calls, Call("users.me", ok, "", 0, 0, 0))
          /\ IF ok
             THEN /\ deploymentState' = PushStep(deploymentState, "notion_connected")
                  /\ pc' = "deployPhase1_Databases"
                  /\ dbIndex' = 1
                  /\ UNCHANGED thrown
             ELSE /\ Throw("Failed to connect to Notion")
                  /\ UNCHANGED <<deploymentState, dbIndex>>
    /\ UNCHANGED <<buildFile, buildPackage, parentId, resIndex, recIndex,
                   persisted, cleanupLog, report, run, entry,
                   sampleDataEnv, envTier, files,
                   toolVars, utilVars>>

----------------------------------------------------------------------------
(* Phase 1: databases *)

CurrentSchema == buildPackage.schemas[dbIndex]

DatabaseError(name, message) ==
    [phase |-> "databases", resource |-> name, error |-> message]

\* variant: the catch block leaves the loop
RecordDatabaseFailure_Break ==
    /\ deploymentState' =
          PushError(deploymentState, DatabaseError(CurrentSchema.name, RemoteErrorMessage))
    /\ dbIndex' = Len(buildPackage.schemas) + 1
    /\ parentId' = 0
    /\ pc' = "deployPhase1_Databases"

\* the catch block of the loop body, then the next iteration
RecordDatabaseFailure ==
    /\ deploymentState' =
          PushError(deploymentState, DatabaseError(CurrentSchema.name, RemoteErrorMessage))
    /\ dbIndex' = dbIndex + 1
    /\ parentId' = 0
    /\ pc' = "deployPhase1_Databases"

\* getOrCreateParentPage: notion.search
searchParentPage ==
    /\ pc = "deployPhase1_Databases"
    /\ dbIndex <= Len(buildPackage.schemas)
    /\ \E outcome \in {"error", "found", "empty"} :
          /\ calls' = Append(calls, Call("search", outcome # "error",
                                         CurrentSchema.name, 0, 0, 0))
          /\ CASE outcome = "error" -> RecordDatabaseFailure
               [] outcome = "found" ->
                     /\ parentId' = 0
                     /\ pc' = "createDatabase"
                     /\ UNCHANGED <<deploymentState, dbIndex>>
               [] outcome = "empty" ->
                     /\ pc' = "createParentPage"
                     /\ UNCHANGED <<deploymentState, dbIndex, parentId>>
    /\ UNCHANGED <<buildFile, buildPackage, resIndex, recIndex, persisted,
                   cleanupLog, thrown, report, run, entry,
                   sampleDataEnv, envTier, files,
                   toolVars, utilVars>>

\* variant: the pause is taken after a failed creation too
createParentPage_PauseOnFailure ==
    /\ pc = "createParentPage"
    /\ \E ok \in BOOLEAN :
          /\ calls' = Append(calls, Call("pages.create", ok, "parent_page",
                                         IF ok THEN NextId ELSE 0, 0, 0))
          /\ IF ok
             THEN /\ parentId' = NextId
                  /\ pc' = "createDatabase"
                  /\ UNCHANGED <<deploymentState, dbIndex>>
             ELSE /\ deploymentState' =
                        PushError(deploymentState,
                                  DatabaseError(CurrentSchema.name, RemoteErrorMessage))
                  /\ parentId' = 0
                  /\ pc' = "sleepAfterDatabase"
                  /\ UNCHANGED dbIndex
    /\ UNCHANGED <<buildFile, buildPackage, resIndex, recIndex, persisted,
                   cleanupLog, thrown, report, run, entry,
                   sampleDataEnv, envTier, files,
                   toolVars, utilVars>>

\* getOrCreateParentPage: notion.pages.create
createParentPage ==
    /\ pc = "createParentPage"
    /\ \E ok \in BOOLEAN :
          /\ calls' = Append(calls, Call("pages.create", ok, "parent_page",
                                         IF ok THEN NextId ELSE 0, 0, 0))
          /\ IF ok
             THEN /\ parentId' = NextId
                  /\ pc' = "createDatabase"
                  /\ UNCHANGED <<deploymentState, dbIndex>>
             ELSE RecordDatabaseFailure
    /\ UNCHANGED <<buildFile, buildPackage, resIndex, recIndex, persisted,
                   cleanupLog, thrown, report, run, entry,
                   sampleDataEnv, envTier, files,
                   toolVars, utilVars>>

\* variant: no pause after a created database
createDatabase_NoPause ==
    /\ pc = "createDatabase"
    /\ \E ok \in BOOLEAN :
          /\ calls' = Append(calls, Call("databases.create", ok, CurrentSchema.name,
                                         IF ok THEN NextId ELSE 0, parentId, 0))
          /\ IF ok
             THEN /\ deploymentState' =
                        PushResource(deploymentState,
                                     [type |-> "database", name |-> CurrentSchema.name,
                                      id |-> NextId])
                  /\ pc' = "deployPhase1_Databases"
                  /\ parentId' = 0
                  /\ dbIndex' = dbIndex + 1
             ELSE RecordDatabaseFailure
    /\ UNCHANGED <<buildFile, buildPackage, resIndex, recIndex, persisted,
                   cleanupLog, thrown, report, run, entry,
                   sampleDataEnv, envTier, files,
                   toolVars, utilVars>>

\* createDatabase: notion.databases.create, and the push that follows it
createDatabase ==
    /\ pc = "createDatabase"
    /\ \E ok \in BOOLEAN :
          /\ calls' = Append(calls, Call("databases.create", ok, CurrentSchema.name,
                                         IF ok THEN NextId ELSE 0, parentId, 0))
          /\ IF ok
             THEN /\ deploymentState' =
                        PushResource(deploymentState,
                                     [type |-> "database", name |-> CurrentSchema.name,
                                      id |-> NextId])
                  /\ pc' = "sleepAfterDatabase"
                  /\ parentId' = 0
                  /\ UNCHANGED dbIndex
             ELSE RecordDatabaseFailure
    /\ UNCHANGED <<buildFile, buildPackage, resIndex, recIndex, persisted,
                   cleanupLog, thrown, report, run, entry,
                   sampleDataEnv, envTier, files,
                   toolVars, utilVars>>

\* await sleep(1000), then the next iteration
sleepAfterDatabase ==
    /\ pc = "sleepAfterDatabase"
    /\ calls' = Append(calls, Call("sleep", TRUE, "", 0, 0, DatabasePauseMs))
    /\ dbIndex' = dbIndex + 1
    /\ pc' = "deployPhase1_Databases"
    /\ UNCHANGED <<deploymentState, buildFile, buildPackage, parentId, resIndex,
                   recIndex, persisted, cleanupLog, thrown, report, run, entry,
                   sampleDataEnv, envTier, files,
                   toolVars, utilVars>>

\* variant: the phase returns without recording its step
finishPhase1_NoStep ==
    /\ pc = "deployPhase1_Databases"
    /\ dbIndex > Len(buildPackage.schemas)
    /\ dbIndex' = 0
    /\ pc' = "deployPhase2_Views"
    /\ UNCHANGED <<deploymentState, buildFile, buildPackage, parentId, resIndex,
                   recIndex, calls, persisted, cleanupLog, thrown, report, run, entry,
                   sampleDataEnv, envTier, files,
                   toolVars, utilVars>>

\* the loop is exhausted
finishPhase1 ==
    /\ pc = "deployPhase1_Databases"
    /\ dbIndex > Len(buildPackage.schemas)
    /\ deploymentState' = PushStep(deploymentState, "databases_deployed")
    /\ dbIndex' = 0
    /\ pc' = "deployPhase2_Views"
    /\ UNCHANGED <<buildFile, buildPackage, parentId, resIndex, recIndex, calls,
                   persisted, cleanupLog, thrown, report, run, entry,
                   sampleDataEnv, envTier, files,
                   toolVars, utilVars>>

----------------------------------------------------------------------------
(* Phase 2: views *)

deployPhase2_Views ==
    /\ pc = "deployPhase2_Views"
    /\ deploymentState' = PushStep(deploymentState, "views_deployed")
    /\ pc' = "deployPhase3_SampleData"
    /\ UNCHANGED <<buildFile, buildPackage, dbIndex, parentId, resIndex, recIndex,
                   calls, persisted, cleanupLog, thrown, report, run, entry,
                   sampleDataEnv, envTier, files,
                   toolVars, utilVars>>

----------------------------------------------------------------------------
(* Phase 3: sample data *)

CurrentResource == deploymentState.createdResources[resIndex]

RecordsToAdd_NoCap(sampleData, name) ==
    LET len == SeedLength(sampleData, name)
    IN  IF len < 0 THEN 0 ELSE len

\* data.slice(0, 5).length for the seed list of a database; 0 when
\* sampleData has no array under the name
RecordsToAdd(sampleData, name) ==
    LET len == SeedLength(sampleData, name)
    IN  IF len < 0 THEN 0 ELSE Min(SampleRecordLimit, len)

deployPhase3_SampleData_IgnoreEnv ==
    /\ pc = "deployPhase3_SampleData"
    /\ \E include \in SampleDataEnvValues :
          /\ sampleDataEnv' = [value |-> include]
          /\ IF buildPackage.sampleData = NoValue
             THEN /\ pc' = "deployPhase4_Integrations"
                  /\ UNCHANGED resIndex
             ELSE /\ pc' = "sampleDataLoop"
                  /\ resIndex' = 1
    /\ UNCHANGED <<deploymentState, buildFile, buildPackage, dbIndex, parentId,
                   recIndex, calls, persisted, cleanupLog, thrown, report, run, entry,
                   envTier, files,
                   toolVars, utilVars>>

\* the guard at the head of deployPhase3_SampleData
deployPhase3_SampleData ==
    /\ pc = "deployPhase3_SampleData"
    /\ \E include \in SampleDataEnvValues :
          /\ sampleDataEnv' = [value |-> include]
          /\ IF buildPackage.sampleData = NoValue \/ include = "false"
             THEN /\ pc' = "deployPhase4_Integrations"
                  /\ UNCHANGED resIndex
             ELSE /\ pc' = "sampleDataLoop"
                  /\ resIndex' = 1
    /\ UNCHANGED <<deploymentState, buildFile, buildPackage, dbIndex, parentId,
                   recIndex, calls, persisted, cleanupLog, thrown, report, run, entry,
                   envTier, files,
                   toolVars, utilVars>>

\* one iteration of the loop over createdResources, up to the first await
nextSampleResource ==
    /\ pc = "sampleDataLoop"
    /\ resIndex <= Len(deploymentState.createdResources)
    /\ IF ~IsDatabase(CurrentResource)
       THEN /\ resIndex' = resIndex + 1
            /\ UNCHANGED <<pc, recIndex>>
       ELSE IF RecordsToAdd(buildPackage.sampleData, CurrentResource.name) = 0
       THEN /\ pc' = "sleepAfterSampleData"
            /\ UNCHANGED <<resIndex, recIndex>>
       ELSE /\ pc' = "addSampleDataToDatabase"
            /\ recIndex' = 1
            /\ UNCHANGED resIndex
    /\ sampleDataEnv' = NoValue
    /\ UNCHANGED <<deploymentState, buildFile, buildPackage, dbIndex, parentId,
                   calls, persisted, cleanupLog, thrown, report, run, entry,
                   envTier, files,
                   toolVars, utilVars>>

\* addSampleDataToDatabase: one notion.pages.create and its catch
addSampleDataToDatabase ==
    /\ pc = "addSampleDataToDatabase"
    /\ \E ok \in BOOLEAN :
          /\ ok \/ FailedRecordCalls < MaxRecordFailures
          /\ calls' = Append(calls, Call("pages.create", ok, "record",
                                         IF ok THEN NextId ELSE 0,
                                         CurrentResource.id, 0))
    /\ IF recIndex < RecordsToAdd(buildPackage.sampleData, CurrentResource.name)
       THEN /\ recIndex' = recIndex + 1
            /\ UNCHANGED pc
       ELSE /\ recIndex' = 0
            /\ pc' = "sleepAfterSampleData"
    /\ UNCHANGED <<deploymentState, buildFile, buildPackage, dbIndex, parentId,
                   resIndex, persisted, cleanupLog, thrown, report, run, entry,
                   sampleDataEnv, envTier, files,
                   toolVars, utilVars>>

\* await sleep(500), then the next iteration
sleepAfterSampleData ==
    /\ pc = "sleepAfterSampleData"
    /\ calls' = Append(calls, Call("sleep", TRUE, "", 0, 0, RecordPauseMs))
    /\ resIndex' = resIndex + 1
    /\ pc' = "sampleDataLoop"
    /\ UNCHANGED <<deploymentState, buildFile, buildPackage, dbIndex, parentId,
                   recIndex, persisted, cleanupLog, thrown, report, run, entry,
                   sampleDataEnv, envTier, files,
                   toolVars, utilVars>>

finishPhase3 ==
    /\ pc = "sampleDataLoop"
    /\ resIndex > Len(deploymentState.createdResources)
    /\ deploymentState' = PushStep(deploymentState, "sample_data_deployed")
    /\ resIndex' = 0
    /\ pc' = "deployPhase4_Integrations"
    /\ sampleDataEnv' = NoValue
    /\ UNCHANGED <<buildFile, buildPackage, dbIndex, parentId, recIndex, calls,
                   persisted, cleanupLog, thrown, report, run, entry,
                   envTier, files,
                   toolVars, utilVars>>

----------------------------------------------------------------------------
(* Phase 4: integrations *)

deployPhase4_Integrations ==
    /\ pc = "deployPhase4_Integrations"
    /\ deploymentState' = PushStep(deploymentState, "integrations_deployed")
    /\ pc' = "createDeploymentSummaryPage"
    /\ sampleDataEnv' = NoValue
    /\ UNCHANGED <<buildFile, buildPackage, dbIndex, parentId, resIndex, recIndex,
                   calls, persisted, cleanupLog, thrown, report, run, entry,
                   envTier, files,
                   toolVars, utilVars>>

----------------------------------------------------------------------------
(* Phase 5: finalization *)

\* variant: a failed summary page is only logged
createDeploymentSummaryPage_Soft ==
    /\ pc = "createDeploymentSummaryPage"
    /\ \E ok \in BOOLEAN :
          /\ calls' = Append(calls, Call("pages.create", ok, "summary_page",
                                         IF ok THEN NextId ELSE 0, 0, 0))
          /\ deploymentState' =
                IF ok
                THEN PushResource(deploymentState,
                                  [type |-> "summary_page", id |-> NextId])
                ELSE deploymentState
          /\ pc' = "saveDeploymentMetadata"
          /\ UNCHANGED thrown
    /\ UNCHANGED <<buildFile, buildPackage, dbIndex, parentId, resIndex, recIndex,
                   persisted, cleanupLog, report, run, entry,
                   sampleDataEnv, envTier, files,
                   toolVars, utilVars>>

createDeploymentSummaryPage ==
    /\ pc = "createDeploymentSummaryPage"
    /\ \E ok \in BOOLEAN :
          /\ calls' = Append(calls, Call("pages.create", ok, "summary_page",
                                         IF ok THEN NextId ELSE 0, 0, 0))
          /\ IF ok
             THEN /\ deploymentState' =
                        PushResource(deploymentState,
                                     [type |-> "summary_page", id |-> NextId])
                  /\ pc' = "saveDeploymentMetadata"
                  /\ UNCHANGED thrown
             ELSE /\ Throw(RemoteErrorMessage)
                  /\ UNCHANGED deploymentState
    /\ UNCHANGED <<buildFile, buildPackage, dbIndex, parentId, resIndex, recIndex,
                   persisted, cleanupLog, report, run, entry,
                   sampleDataEnv, envTier, files,
                   toolVars, utilVars>>

\* the object saveDeploymentMetadata serialises
DeploymentMetadata ==
    [client |-> deploymentState.client,
     tier |-> deploymentState.tier,
     startTime |-> deploymentState.startTime,
     completedSteps |-> deploymentState.completedSteps,
     createdResources |-> deploymentState.createdResources,
     errors |-> deploymentState.errors,
     buildPackage |-> [tier |-> buildPackage.tier, client |-> buildPackage.client],
     deploymentTime |-> Len(calls) - deploymentState.startTime]

\* variant: 'deployment_finalized' is recorded before the snapshot is written
saveDeploymentMetadata_PushFirst ==
    /\ pc = "saveDeploymentMetadata"
    /\ \/ /\ Throw("cannot write deployment metadata")
          /\ UNCHANGED <<deploymentState, persisted>>
       \/ /\ deploymentState' = PushStep(deploymentState, "deployment_finalized")
          /\ persisted' =
                Append(persisted,
                       [DeploymentMetadata EXCEPT
                           !.completedSteps = deploymentState'.completedSteps])
          /\ pc' = "generateDeploymentReport"
          /\ UNCHANGED thrown
    /\ UNCHANGED <<buildFile, buildPackage, dbIndex, parentId, resIndex, recIndex,
                   calls, cleanupLog, report, run, entry,
                   sampleDataEnv, envTier, files,
                   toolVars, utilVars>>

\* saveDeploymentMetadata, then the end of deployPhase5_Finalization
saveDeploymentMetadata ==
    /\ pc = "saveDeploymentMetadata"
    /\ \/ \* fs.writeFile rejects
          /\ Throw("cannot write deployment metadata")
          /\ UNCHANGED <<deploymentState, persisted>>
       \/ /\ persisted' = Append(persisted, DeploymentMetadata)
          /\ deploymentState' = PushStep(deploymentState, "deployment_finalized")
          /\ pc' = "generateDeploymentReport"
          /\ UNCHANGED thrown
    /\ UNCHANGED <<buildFile, buildPackage, dbIndex, parentId, resIndex, recIndex,
                   calls, cleanupLog, report, run, entry,
                   sampleDataEnv, envTier, files,
                   toolVars, utilVars>>

\* variant: summary.databases counts every created resource
DeploymentReport_CountAll ==
    [success |-> TRUE,
     client |-> buildPackage.client,
     tier |-> buildPackage.tier,
     deploymentTime |-> Len(calls) - deploymentState.startTime,
     completedSteps |-> Len(deploymentState.completedSteps),
     createdResources |-> Len(deploymentState.createdResources),
     errors |-> Len(deploymentState.errors),
     summary |-> [databases |-> Len(deploymentState.createdResources),
                  pages |-> CountOfType(deploymentState.createdResources, "page")]]

DeploymentReport ==
    [success |-> TRUE,
     client |-> buildPackage.client,
     tier |-> buildPackage.tier,
     deploymentTime |-> Len(calls) - deploymentState.startTime,
     completedSteps |-> Len(deploymentState.completedSteps),
     createdResources |-> Len(deploymentState.createdResources),
     errors |-> Len(deploymentState.errors),
     summary |-> [databases |-> CountOfType(deploymentState.createdResources, "database"),
                  pages |-> CountOfType(deploymentState.createdResources, "page")]]

\* variant: the report is awaited and never delivered
generateDeploymentReport_Hang ==
    /\ pc = "generateDeploymentReport"
    /\ FALSE
    /\ UNCHANGED vars

\* generateDeploymentReport and the return of deployConstructionTemplate
generateDeploymentReport ==
    /\ pc = "generateDeploymentReport"
    /\ report' = DeploymentReport
    /\ pc' = "done"
    /\ UNCHANGED <<deploymentState, buildFile, buildPackage, dbIndex, parentId,
                   resIndex, recIndex, calls, persisted, cleanupLog, thrown, run, entry,
                   sampleDataEnv, envTier, files,
                   toolVars, utilVars>>

----------------------------------------------------------------------------
(* The catch block of deployConstructionTemplate *)

\* resource.name || resource.id
ResourceLabel(r) == IF "name" \in DOMAIN r THEN r.name ELSE ToString(r.id)

CleanupLines ==
    [x \in 1..Len(deploymentState.createdResources) |->
        [type |-> deploymentState.createdResources[x].type,
         label |-> ResourceLabel(deploymentState.createdResources[x])]]

\* variant: the cleanup archives what the run created and forgets it
cleanupFailedDeployment_Rollback ==
    /\ pc = "catch"
    /\ cleanupLog' = cleanupLog \o CleanupLines
    /\ calls' = calls \o
          [x \in 1..Len(deploymentState.createdResources) |->
              Call("blocks.delete", TRUE, "", deploymentState.createdResources[x].id, 0, 0)]
    /\ deploymentState' = [deploymentState EXCEPT !.createdResources = <<>>]
    /\ pc' = "aborted"
    /\ UNCHANGED <<buildFile, buildPackage, dbIndex, parentId, resIndex, recIndex,
                   persisted, thrown, report, run, entry,
                   sampleDataEnv, envTier, files,
                   toolVars, utilVars>>

\* cleanupFailedDeployment, then throw error
cleanupFailedDeployment ==
    /\ pc = "catch"
    /\ cleanupLog' = cleanupLog \o CleanupLines
    /\ pc' = "aborted"
    /\ UNCHANGED <<deploymentState, buildFile, buildPackage, dbIndex, parentId,
                   resIndex, recIndex, calls, persisted, thrown, report, run, entry,
                   sampleDataEnv, envTier, files,
                   toolVars, utilVars>>

----------------------------------------------------------------------------
(* A caller that invokes deployConstructionTemplate again in the same process *)

Reinvoke ==
    /\ pc \in {"done", "aborted"}
    /\ run < MaxRuns
    /\ Len(calls) <= MaxCarriedCalls
    /\ run' = run + 1
    /\ pc' = "idle"
    /\ buildPackage' = NoValue
    /\ thrown' = NoError
    /\ report' = NoValue
    /\ UNCHANGED <<deploymentState, buildFile, dbIndex, parentId, resIndex,
                   recIndex, calls, persisted, cleanupLog, entry,
                   sampleDataEnv, envTier, files,
                   toolVars, utilVars>>

----------------------------------------------------------------------------
(* Specifications *)

Next ==
    \/ deployConstructionTemplate
    \/ initializeEnvironment
    \/ loadBuildArtifacts
    \/ readBuildFile
    \/ initializeNotionClient
    \/ searchParentPage
    \/ createParentPage
    \/ createDatabase
    \/ sleepAfterDatabase
    \/ finishPhase1
    \/ deployPhase2_Views
    \/ deployPhase3_SampleData
    \/ nextSampleResource
    \/ addSampleDataToDatabase
    \/ sleepAfterSampleData
    \/ finishPhase3
    \/ deployPhase4_Integrations
    \/ createDeploymentSummaryPage
    \/ saveDeploymentMetadata
    \/ generateDeploymentReport
    \/ cleanupFailedDeployment

\* one invocation in a fresh process (the CLI entry point)
Spec == Init /\ [][Next]_vars

NextReuse == Next \/ Reinvoke

\* repeated invocations through the exported function
SpecReuse == Init /\ [][NextReuse]_vars

\* one invocation in which every remote call, file operation and sleep
\* returns: a step that can be taken is taken
SpecLive == Init /\ [][Next]_vars /\ WF_vars(Next)

----------------------------------------------------------------------------
(***************************************************************************)
(* Template builder (build-template script), cost estimator                *)
(* (estimate-deployment-cost script) and input validator (validate-inputs  *)
(* script).  Each script runs one of its functions on arguments chosen by  *)
(* the caller; the schema store and the outcome of every file operation    *)
(* are chosen by the environment.                                          *)
(***************************************************************************)

(* Bounds *)

MaxStoreFiles == 3        \* most entries of src/schemas/databases
MaxIntegrationKeys == 2   \* most keys of an integration configuration

(* Tier catalogs *)

Tiers == {"starter", "professional", "enterprise"}

\* a --tier argument may name no tier
TierInputs == Tiers \cup {"premium"}

templateConfigs ==
    [ starter |->
        [ databases |-> << "projects", "tasks", "clients", "documents",
                           "team-members" >>,
          views |-> << "active-projects", "pending-tasks", "client-overview",
                       "recent-documents" >>,
          features |-> << "basic-project-tracking", "task-management",
                          "client-contact-management", "document-storage" >> ],
      professional |->
        [ databases |-> << "projects", "tasks", "clients", "documents",
                           "team-members", "materials", "vendors", "budgets",
                           "expenses", "schedules" >>,
          views |-> << "project-dashboard", "task-kanban", "client-portal",
                       "material-inventory", "vendor-directory",
                       "budget-tracking", "expense-reports",
                       "project-timeline" >>,
          features |-> << "all-starter-features", "material-management",
                          "vendor-management", "budget-tracking",
                          "expense-management", "project-scheduling",
                          "reporting-dashboard" >> ],
      enterprise |->
        [ databases |-> << "projects", "tasks", "clients", "documents",
                           "team-members", "materials", "vendors", "budgets",
                           "expenses", "schedules", "portfolios", "contracts",
                           "reports", "integrations", "automations" >>,
          views |-> << "portfolio-overview", "project-dashboard", "task-kanban",
                       "client-portal", "material-inventory",
                       "vendor-directory", "budget-tracking", "expense-reports",
                       "project-timeline", "contract-management",
                       "analytics-dashboard", "integration-hub" >>,
          features |-> << "all-professional-features", "portfolio-management",
                          "contract-management", "advanced-analytics",
                          "custom-integrations", "workflow-automation",
                          "multi-project-tracking", "enterprise-reporting" >> ] ]

tierConfigurations_NoEmail ==
    [ starter |->
        [ maxProjects |-> 5, maxUsers |-> 2, integrations |-> << >> ],
      professional |->
        [ maxProjects |-> 25, maxUsers |-> 10,
          integrations |-> << "slack", "email" >> ],
      enterprise |->
        [ maxProjects |-> -1, maxUsers |-> -1,
          integrations |-> << "slack", "quickbooks", "custom-api" >> ] ]

tierConfigurations ==
    [ starter |->
        [ maxProjects |-> 5, maxUsers |-> 2, integrations |-> << >> ],
      professional |->
        [ maxProjects |-> 25, maxUsers |-> 10,
          integrations |-> << "slack", "email" >> ],
      enterprise |->
        [ maxProjects |-> -1, maxUsers |-> -1,
          integrations |-> << "slack", "email", "quickbooks", "custom-api" >> ] ]

tierCosts ==
    [ starter |->
        [ databases |-> 8, views |-> 15, pages |-> 50, properties |-> 40,
          integrations |-> 0, automations |-> 5,
          sampleData |-> [projects |-> 3, tasks |-> 25, clients |-> 5,
                          materials |-> 20] ],
      professional |->
        [ databases |-> 15, views |-> 35, pages |-> 150, properties |-> 100,
          integrations |-> 10, automations |-> 20,
          sampleData |-> [projects |-> 8, tasks |-> 80, clients |-> 15,
                          materials |-> 100, vendors |-> 12, budgets |-> 8] ],
      enterprise |->
        [ databases |-> 25, views |-> 60, pages |-> 300, properties |-> 200,
          integrations |-> 25, automations |-> 40,
          sampleData |-> [projects |-> 15, tasks |-> 200, clients |-> 30,
                          materials |-> 250, vendors |-> 25, budgets |-> 15,
                          reports |-> 20, portfolios |-> 5] ] ]

apiWeights ==
    [ createDatabase |-> 2, updateDatabase |-> 1, createPage |-> 1,
      updatePage |-> 1, addProperty |-> 1, createView |-> 1,
      setupIntegration |-> 3, createAutomation |-> 2, uploadFile |-> 1 ]

BaseCalls == 20
RequestsPerSecond == 3
OffPeakThreshold == 1000
LightweightThreshold == 100

(* Strings as character sequences, for String.prototype.includes *)

CatalogViewNames ==
    { "active-projects", "pending-tasks", "client-overview",
      "recent-documents", "project-dashboard", "task-kanban",
      "client-portal", "material-inventory", "vendor-directory",
      "budget-tracking", "expense-reports", "project-timeline",
      "portfolio-overview", "contract-management", "analytics-dashboard",
      "integration-hub" }

ViewKeywords == { "kanban", "timeline", "schedule", "dashboard", "overview", "calendar" }

\* further view names: every ordered pair of keywords, and names that hold
\* no keyword, a keyword in another case, or keywords run together
OtherViewNames ==
    { "kanban-timeline", "kanban-schedule", "kanban-dashboard",
      "kanban-overview", "kanban-calendar", "timeline-kanban",
      "timeline-schedule", "timeline-dashboard", "timeline-overview",
      "timeline-calendar", "schedule-kanban", "schedule-timeline",
      "schedule-dashboard", "schedule-overview", "schedule-calendar",
      "dashboard-kanban", "dashboard-timeline", "dashboard-schedule",
      "dashboard-overview", "dashboard-calendar", "overview-kanban",
      "overview-timeline", "overview-schedule", "overview-dashboard",
      "overview-calendar", "calendar-kanban", "calendar-timeline",
      "calendar-schedule", "calendar-dashboard", "calendar-overview", "",
      "roadmap", "Kanban-board", "kanbantimeline", "team-schedules",
      "time-line", "dash-board", "my-calendar" }

Chars ==
    ("active-projects" :> <<"a", "c", "t", "i", "v", "e", "-", "p", "r", "o", "j", "e", "c", "t", "s">>)
    @@ ("pending-tasks" :> <<"p", "e", "n", "d", "i", "n", "g", "-", "t", "a", "s", "k", "s">>)
    @@ ("client-overview" :> <<"c", "l", "i", "e", "n", "t", "-", "o", "v", "e", "r", "v", "i", "e", "w">>)
    @@ ("recent-documents" :> <<"r", "e", "c", "e", "n", "t", "-", "d", "o", "c", "u", "m", "e", "n", "t", "s">>)
    @@ ("project-dashboard" :> <<"p", "r", "o", "j", "e", "c", "t", "-", "d", "a", "s", "h", "b", "o", "a", "r", "d">>)
    @@ ("task-kanban" :> <<"t", "a", "s", "k", "-", "k", "a", "n", "b", "a", "n">>)
    @@ ("client-portal" :> <<"c", "l", "i", "e", "n", "t", "-", "p", "o", "r", "t", "a", "l">>)
    @@ ("material-inventory" :> <<"m", "a", "t", "e", "r", "i", "a", "l", "-", "i", "n", "v", "e", "n", "t", "o", "r", "y">>)
    @@ ("vendor-directory" :> <<"v", "e", "n", "d", "o", "r", "-", "d", "i", "r", "e", "c", "t", "o", "r", "y">>)
    @@ ("budget-tracking" :> <<"b", "u", "d", "g", "e", "t", "-", "t", "r", "a", "c", "k", "i", "n", "g">>)
    @@ ("expense-reports" :> <<"e", "x", "p", "e", "n", "s", "e", "-", "r", "e", "p", "o", "r", "t", "s">>)
    @@ ("project-timeline" :> <<"p", "r", "o", "j", "e", "c", "t", "-", "t", "i", "m", "e", "l", "i", "n", "e">>)
    @@ ("portfolio-overview" :> <<"p", "o", "r", "t", "f", "o", "l", "i", "o", "-", "o", "v", "e", "r", "v", "i", "e", "w">>)
    @@ ("contract-management" :> <<"c", "o", "n", "t", "r", "a", "c", "t", "-", "m", "a", "n", "a", "g", "e", "m", "e", "n", "t">>)
    @@ ("analytics-dashboard" :> <<"a", "n", "a", "l", "y", "t", "i", "c", "s", "-", "d", "a", "s", "h", "b", "o", "a", "r", "d">>)
    @@ ("integration-hub" :> <<"i", "n", "t", "e", "g", "r", "a", "t", "i", "o", "n", "-", "h", "u", "b">>)
    @@ ("kanban" :> <<"k", "a", "n", "b", "a", "n">>)
    @@ ("timeline" :> <<"t", "i", "m", "e", "l", "i", "n", "e">>)
    @@ ("schedule" :> <<"s", "c", "h", "e", "d", "u", "l", "e">>)
    @@ ("dashboard" :> <<"d", "a", "s", "h", "b", "o", "a", "r", "d">>)
    @@ ("overview" :> <<"o", "v", "e", "r", "v", "i", "e", "w">>)
    @@ ("calendar" :> <<"c", "a", "l", "e", "n", "d", "a", "r">>)
    @@ ("kanban-timeline" :> <<"k", "a", "n", "b", "a", "n", "-", "t", "i", "m", "e", "l", "i", "n", "e">>)
    @@ ("kanban-schedule" :> <<"k", "a", "n", "b", "a", "n", "-", "s", "c", "h", "e", "d", "u", "l", "e">>)
    @@ ("kanban-dashboard" :> <<"k", "a", "n", "b", "a", "n", "-", "d", "a", "s", "h", "b", "o", "a", "r", "d">>)
    @@ ("kanban-overview" :> <<"k", "a", "n", "b", "a", "n", "-", "o", "v", "e", "r", "v", "i", "e", "w">>)
    @@ ("kanban-calendar" :> <<"k", "a", "n", "b", "a", "n", "-", "c", "a", "l", "e", "n", "d", "a", "r">>)
    @@ ("timeline-kanban" :> <<"t", "i", "m", "e", "l", "i", "n", "e", "-", "k", "a", "n", "b", "a", "n">>)
    @@ ("timeline-schedule" :> <<"t", "i", "m", "e", "l", "i", "n", "e", "-", "s", "c", "h", "e", "d", "u", "l", "e">>)
    @@ ("timeline-dashboard" :> <<"t", "i", "m", "e", "l", "i", "n", "e", "-", "d", "a", "s", "h", "b", "o", "a", "r", "d">>)
    @@ ("timeline-overview" :> <<"t", "i", "m", "e", "l", "i", "n", "e", "-", "o", "v", "e", "r", "v", "i", "e", "w">>)
    @@ ("timeline-calendar" :> <<"t", "i", "m", "e", "l", "i", "n", "e", "-", "c", "a", "l", "e", "n", "d", "a", "r">>)
    @@ ("schedule-kanban" :> <<"s", "c", "h", "e", "d", "u", "l", "e", "-", "k", "a", "n", "b", "a", "n">>)
    @@ ("schedule-timeline" :> <<"s", "c", "h", "e", "d", "u", "l", "e", "-", "t", "i", "m", "e", "l", "i", "n", "e">>)
    @@ ("schedule-dashboard" :> <<"s", "c", "h", "e", "d", "u", "l", "e", "-", "d", "a", "s", "h", "b", "o", "a", "r", "d">>)
    @@ ("schedule-overview" :> <<"s", "c", "h", "e", "d", "u", "l", "e", "-", "o", "v", "e", "r", "v", "i", "e", "w">>)
    @@ ("schedule-calendar" :> <<"s", "c", "h", "e", "d", "u", "l", "e", "-", "c", "a", "l", "e", "n", "d", "a", "r">>)
    @@ ("dashboard-kanban" :> <<"d", "a", "s", "h", "b", "o", "a", "r", "d", "-", "k", "a", "n", "b", "a", "n">>)
    @@ ("dashboard-timeline" :> <<"d", "a", "s", "h", "b", "o", "a", "r", "d", "-", "t", "i", "m", "e", "l", "i", "n", "e">>)
    @@ ("dashboard-schedule" :> <<"d", "a", "s", "h", "b", "o", "a", "r", "d", "-", "s", "c", "h", "e", "d", "u", "l", "e">>)
    @@ ("dashboard-overview" :> <<"d", "a", "s", "h", "b", "o", "a", "r", "d", "-", "o", "v", "e", "r", "v", "i", "e", "w">>)
    @@ ("dashboard-calendar" :> <<"d", "a", "s", "h", "b", "o", "a", "r", "d", "-", "c", "a", "l", "e", "n", "d", "a", "r">>)
    @@ ("overview-kanban" :> <<"o", "v", "e", "r", "v", "i", "e", "w", "-", "k", "a", "n", "b", "a", "n">>)
    @@ ("overview-timeline" :> <<"o", "v", "e", "r", "v", "i", "e", "w", "-", "t", "i", "m", "e", "l", "i", "n", "e">>)
    @@ ("overview-schedule" :> <<"o", "v", "e", "r", "v", "i", "e", "w", "-", "s", "c", "h", "e", "d", "u", "l", "e">>)
    @@ ("overview-dashboard" :> <<"o", "v", "e", "r", "v", "i", "e", "w", "-", "d", "a", "s", "h", "b", "o", "a", "r", "d">>)
    @@ ("overview-calendar" :> <<"o", "v", "e", "r", "v", "i", "e", "w", "-", "c", "a", "l", "e", "n", "d", "a", "r">>)
    @@ ("calendar-kanban" :> <<"c", "a", "l", "e", "n", "d", "a", "r", "-", "k", "a", "n", "b", "a", "n">>)
    @@ ("calendar-timeline" :> <<"c", "a", "l", "e", "n", "d", "a", "r", "-", "t", "i", "m", "e", "l", "i", "n", "e">>)
    @@ ("calendar-schedule" :> <<"c", "a", "l", "e", "n", "d", "a", "r", "-", "s", "c", "h", "e", "d", "u", "l", "e">>)
    @@ ("calendar-dashboard" :> <<"c", "a", "l", "e", "n", "d", "a", "r", "-", "d", "a", "s", "h", "b", "o", "a", "r", "d">>)
    @@ ("calendar-overview" :> <<"c", "a", "l", "e", "n", "d", "a", "r", "-", "o", "v", "e", "r", "v", "i", "e", "w">>)
    @@ ("" :> <<>>)
    @@ ("roadmap" :> <<"r", "o", "a", "d", "m", "a", "p">>)
    @@ ("Kanban-board" :> <<"K", "a", "n", "b", "a", "n", "-", "b", "o", "a", "r", "d">>)
    @@ ("kanbantimeline" :> <<"k", "a", "n", "b", "a", "n", "t", "i", "m", "e", "l", "i", "n", "e">>)
    @@ ("team-schedules" :> <<"t", "e", "a", "m", "-", "s", "c", "h", "e", "d", "u", "l", "e", "s">>)
    @@ ("time-line" :> <<"t", "i", "m", "e", "-", "l", "i", "n", "e">>)
    @@ ("dash-board" :> <<"d", "a", "s", "h", "-", "b", "o", "a", "r", "d">>)
    @@ ("my-calendar" :> <<"m", "y", "-", "c", "a", "l", "e", "n", "d", "a", "r">>)

ViewNameInputs == DOMAIN Chars

\* s.includes(t) on character sequences
Includes(s, t) ==
    \E x \in 1..(Len(s) - Len(t) + 1) : SubSeq(s, x, x + Len(t) - 1) = t

\* array.includes(x)
ArrayIncludes(array, x) == \E y \in 1..Len(array) : array[y] = x

(* Inputs of the scripts *)

\* an entry of the schema directory, <name>.<ext>; name holds no '.json'
File(name, ext) == [name |-> name, ext |-> ext]

StoreEntries ==
    { File("projects", "json"), File("tasks", "json"), File("clients", "json"),
      File("materials", "json"), File("notes", "json"), File("README", "md") }

\* what fs.readdir may hand back: the entries of the directory, each once,
\* in any order
StoreListings ==
    { s \in UNION { [1..n -> StoreEntries] : n \in 0..MaxStoreFiles } :
        \A x \in 1..Len(s) : \A y \in 1..Len(s) : s[x] = s[y] => x = y }

\* --client values given to the builder and to the input validation
BuildClientNames == ClientNames \cup {"Notion", "a/b"}

\* the characters of each client name
ClientChars ==
    ("" :> <<>>)
    @@ ("Acme Co" :> <<"A", "c", "m", "e", " ", "C", "o">>)
    @@ ("Notion" :> <<"N", "o", "t", "i", "o", "n">>)
    @@ ("a/b" :> <<"a", "/", "b">>)

\* the letters String.prototype.toLowerCase changes
LowerOf ==
    ("A" :> "a") @@ ("B" :> "b") @@ ("C" :> "c") @@ ("D" :> "d")
    @@ ("E" :> "e") @@ ("F" :> "f") @@ ("G" :> "g") @@ ("H" :> "h")
    @@ ("I" :> "i") @@ ("J" :> "j") @@ ("K" :> "k") @@ ("L" :> "l")
    @@ ("M" :> "m") @@ ("N" :> "n") @@ ("O" :> "o") @@ ("P" :> "p")
    @@ ("Q" :> "q") @@ ("R" :> "r") @@ ("S" :> "s") @@ ("T" :> "t")
    @@ ("U" :> "u") @@ ("V" :> "v") @@ ("W" :> "w") @@ ("X" :> "x")
    @@ ("Y" :> "y") @@ ("Z" :> "z")

\* client.toLowerCase() on character sequences
toLowerCase(s) ==
    [x \in 1..Len(s) |-> IF s[x] \in DOMAIN LowerOf THEN LowerOf[s[x]] ELSE s[x]]

\* the character class of /[<>:"/\\|?*]/
problematicChars == {"<", ">", ":", "\"", "/", "\\", "|", "?", "*"}

reservedWords ==
    << <<"n", "o", "t", "i", "o", "n">>,
       <<"t", "e", "m", "p", "l", "a", "t", "e">>,
       <<"s", "y", "s", "t", "e", "m">>,
       <<"a", "d", "m", "i", "n">>,
       <<"a", "p", "i">> >>

\* validateClientName: the message of the error it throws, "valid" when it
\* returns
validateClientName(client) ==
    IF \E x \in 1..Len(client) : client[x] \in problematicChars
    THEN "Client name contains invalid characters"
    ELSE IF ArrayIncludes(reservedWords, toLowerCase(client))
    THEN "Client name cannot be a reserved word"
    ELSE "valid"

BuildOptions ==
    [tier : TierInputs, client : BuildClientNames, sampleData : BOOLEAN]

\* options.sampleData of estimateDeploymentCost: absent, true or false
EstimateOptions == {NoValue, [sampleData |-> TRUE], [sampleData |-> FALSE]}

IntegrationNames == {"slack", "email", "quickbooks", "custom-api", "jira"}

\* the keys of a parsed integration configuration, in Object.keys order;
\* NoValue stands for a string that is not JSON
IntegrationConfigs ==
    { [keys |-> s] :
        s \in { t \in UNION { [1..n -> IntegrationNames] :
                                n \in 0..MaxIntegrationKeys } :
                  \A x \in 1..Len(t) : \A y \in 1..Len(t) :
                      t[x] = t[y] => x = y } }

(* Pure functions of the template builder *)

getViewType_CalendarFirst(viewName) ==
    LET includes(word) == Includes(Chars[viewName], Chars[word])
    IN  IF includes("kanban") THEN "kanban"
        ELSE IF includes("timeline") \/ includes("schedule") THEN "timeline"
        ELSE IF includes("calendar") THEN "calendar"
        ELSE IF includes("dashboard") \/ includes("overview") THEN "table"
        ELSE "table"

getViewType(viewName) ==
    LET includes(word) == Includes(Chars[viewName], Chars[word])
    IN  IF includes("kanban") THEN "kanban"
        ELSE IF includes("timeline") \/ includes("schedule") THEN "timeline"
        ELSE IF includes("dashboard") \/ includes("overview") THEN "table"
        ELSE IF includes("calendar") THEN "calendar"
        ELSE "table"

getViewDatabases(viewName) ==
    CASE viewName = "active-projects" -> << "projects" >>
      [] viewName = "pending-tasks" -> << "tasks" >>
      [] viewName = "client-overview" -> << "clients" >>
      [] viewName = "project-dashboard" -> << "projects", "tasks" >>
      [] viewName = "task-kanban" -> << "tasks" >>
      [] viewName = "material-inventory" -> << "materials" >>
      [] viewName = "vendor-directory" -> << "vendors" >>
      [] viewName = "budget-tracking" -> << "budgets" >>
      [] viewName = "portfolio-overview" -> << "portfolios", "projects" >>
      [] OTHER -> << "projects" >>

buildViewConfigurations(tier) ==
    LET tierViews == templateConfigs[tier].views
    IN  [x \in 1..Len(tierViews) |->
            [name |-> tierViews[x],
             type |-> getViewType(tierViews[x]),
             databases |-> getViewDatabases(tierViews[x])]]

\* the fallback of buildDatabaseSchemas
generateDefaultSchemas(tier) ==
    << [name |-> "projects", schema |-> "default", tier |-> tier] >>

\* number of records per category; a category left out was deleted as null
generateSampleData(tier) ==
    [projects |-> IF tier = "starter" THEN 2
                  ELSE IF tier = "professional" THEN 5 ELSE 8,
     tasks |-> IF tier = "starter" THEN 10
               ELSE IF tier = "professional" THEN 25 ELSE 40,
     clients |-> 1]
    @@ (IF tier # "starter" THEN [materials |-> 3] ELSE << >>)
    @@ (IF tier = "enterprise" \/ tier = "professional"
        THEN [vendors |-> 3] ELSE << >>)

generateTemplateConfig(opts) ==
    [client |-> opts.client, tier |-> opts.tier,
     includeSampleData |-> opts.sampleData,
     features |-> templateConfigs[opts.tier].features,
     databases |-> templateConfigs[opts.tier].databases,
     views |-> templateConfigs[opts.tier].views]

BuildMetadata_FromCatalog(tier, builtSchemas, builtViews) ==
    [includedFeatures |-> Len(templateConfigs[tier].features),
     databaseCount |-> Len(templateConfigs[tier].databases),
     viewCount |-> Len(templateConfigs[tier].views)]

\* the metadata field of the build package
BuildMetadata(tier, builtSchemas, builtViews) ==
    [includedFeatures |-> Len(templateConfigs[tier].features),
     databaseCount |-> Len(builtSchemas),
     viewCount |-> Len(builtViews)]

\* throw inside buildTemplate, estimateDeploymentCost or
\* validateIntegrationConfig: the caller gets the error
Fail(message) ==
    /\ tool' = "failed"
    /\ result' = [error |-> message]

(* buildTemplate *)

\* entry, ensureDirectoryExists('dist') and generateTemplateConfig
buildTemplate ==
    /\ tool = "idle"
    /\ \E opts \in BuildOptions, mkdir \in BOOLEAN :
          /\ options' = opts
          /\ IF ~mkdir
             THEN Fail("mkdir failed")
             ELSE IF opts.tier \notin DOMAIN templateConfigs
             THEN Fail("Cannot read properties of undefined")
             ELSE /\ tool' = "buildDatabaseSchemas"
                  /\ UNCHANGED result
    /\ UNCHANGED <<jsonFiles, fileIndex, schemas, package, dist, deployVars, utilVars>>

\* buildDatabaseSchemas: fs.readdir and the filter on '.json'
readSchemaDirectory ==
    /\ tool = "buildDatabaseSchemas"
    /\ \/ \E listing \in StoreListings :
             /\ jsonFiles' = SelectSeq(listing, LAMBDA f : f.ext = "json")
             /\ schemas' = << >>
             /\ IF jsonFiles' = << >>
                THEN tool' = "createBuildPackage" /\ fileIndex' = 0
                ELSE tool' = "readSchemaFile" /\ fileIndex' = 1
       \/ /\ schemas' = generateDefaultSchemas(options.tier)
          /\ tool' = "createBuildPackage"
          /\ UNCHANGED <<jsonFiles, fileIndex>>
    /\ UNCHANGED <<options, package, result, dist, deployVars, utilVars>>

\* buildDatabaseSchemas: one iteration of the loop, fs.readFile and
\* JSON.parse, and the catch around the loop
readSchemaFile ==
    /\ tool = "readSchemaFile"
    /\ \E ok \in BOOLEAN :
          IF ok
          THEN /\ schemas' =
                     IF ArrayIncludes(templateConfigs[options.tier].databases,
                                      jsonFiles[fileIndex].name)
                     THEN Append(schemas, [name |-> jsonFiles[fileIndex].name,
                                           schema |-> "stored",
                                           tier |-> options.tier])
                     ELSE schemas
               /\ IF fileIndex < Len(jsonFiles)
                  THEN fileIndex' = fileIndex + 1 /\ UNCHANGED tool
                  ELSE fileIndex' = 0 /\ tool' = "createBuildPackage"
          ELSE /\ schemas' = schemas \o generateDefaultSchemas(options.tier)
               /\ fileIndex' = 0
               /\ tool' = "createBuildPackage"
    /\ UNCHANGED <<options, jsonFiles, package, result, dist, deployVars, utilVars>>

\* buildViewConfigurations, generateSampleData and the build package object
createBuildPackage ==
    /\ tool = "createBuildPackage"
    /\ LET views == buildViewConfigurations(options.tier)
       IN  package' =
             [buildId |-> Len(dist) + 1,
              client |-> options.client,
              tier |-> options.tier,
              config |-> generateTemplateConfig(options),
              schemas |-> schemas,
              views |-> views,
              sampleData |-> IF options.sampleData
                             THEN generateSampleData(options.tier)
                             ELSE NoValue,
              metadata |-> BuildMetadata(options.tier, schemas, views)]
    /\ tool' = "writeBuildPackage"
    /\ UNCHANGED <<options, jsonFiles, fileIndex, schemas, result, dist,
                   deployVars, utilVars>>

\* fs.writeFile of dist/template-<tier>-<buildId>.json
writeBuildPackage ==
    /\ tool = "writeBuildPackage"
    /\ \E ok \in BOOLEAN :
          IF ok
          THEN /\ dist' = Append(dist, [tier |-> package.tier,
                                        buildId |-> package.buildId,
                                        content |-> package])
               /\ tool' = "saveBuildComponents"
               /\ UNCHANGED result
          ELSE /\ Fail("write failed")
               /\ UNCHANGED dist
    /\ UNCHANGED <<options, jsonFiles, fileIndex, schemas, package, deployVars, utilVars>>

\* saveBuildComponents and the return of buildTemplate
saveBuildComponents ==
    /\ tool = "saveBuildComponents"
    /\ \E ok \in BOOLEAN :
          IF ok
          THEN /\ tool' = "built"
               /\ result' = package
          ELSE Fail("write failed")
    /\ UNCHANGED <<options, jsonFiles, fileIndex, schemas, package, dist,
                   deployVars, utilVars>>

\* getViewType applied to a view name
applyGetViewType ==
    /\ tool = "idle"
    /\ \E viewName \in ViewNameInputs :
          /\ options' = [viewName |-> viewName]
          /\ result' = [type |-> getViewType(viewName)]
    /\ tool' = "viewTyped"
    /\ UNCHANGED <<jsonFiles, fileIndex, schemas, package, dist, deployVars, utilVars>>

(* estimateDeploymentCost *)

RECURSIVE SumValues(_)
\* Object.values(o).reduce((sum, count) => sum + count, 0)
SumValues(o) ==
    IF DOMAIN o = {} THEN 0
    ELSE LET k == CHOOSE k \in DOMAIN o : TRUE
         IN  o[k] + SumValues([j \in DOMAIN o \ {k} |-> o[j]])

\* Math.ceil(a / b) for a >= 0 and b > 0
Ceil(a, b) == (a + b - 1) \div b

EstimatedSeconds_Floor(totalApiCalls) == totalApiCalls \div RequestsPerSecond

EstimatedSeconds(totalApiCalls) == Ceil(totalApiCalls, RequestsPerSecond)

OffPeakAdvice ==
    "Consider running deployment during off-peak hours to minimize impact"

generateRecommendations(tier, apiCalls) ==
    (IF apiCalls > OffPeakThreshold
     THEN << OffPeakAdvice,
             "Monitor API rate limits closely during deployment" >>
     ELSE << >>)
    \o (IF tier = "starter"
        THEN << "Starter tier deployment should complete quickly",
                "Consider upgrading to Professional for more features" >>
        ELSE IF tier = "enterprise"
        THEN << "Enterprise deployment includes all features and integrations",
                "Allow extra time for complex automation setup" >>
        ELSE << >>)
    \o (IF apiCalls < LightweightThreshold
        THEN << "This is a lightweight deployment that should complete very quickly" >>
        ELSE << >>)

\* the value estimateDeploymentCost returns for a known tier
Estimate(tier, opts) ==
    LET tierConfig == tierCosts[tier]
        includeSampleData ==
            ~("sampleData" \in DOMAIN opts /\ opts.sampleData = FALSE)
        databaseCalls == tierConfig.databases * apiWeights.createDatabase
        viewCalls == tierConfig.views * apiWeights.createView
        propertyCalls == tierConfig.properties * apiWeights.addProperty
        integrationCalls == tierConfig.integrations * apiWeights.setupIntegration
        automationCalls == tierConfig.automations * apiWeights.createAutomation
        sampleDataCalls == SumValues(tierConfig.sampleData) * apiWeights.createPage
        totalApiCalls ==
            databaseCalls + viewCalls + propertyCalls + integrationCalls
            + automationCalls
            + (IF includeSampleData THEN sampleDataCalls ELSE 0)
            + BaseCalls
        estimatedSeconds == EstimatedSeconds(totalApiCalls)
    IN  [tier |-> tier,
         totalApiCalls |-> totalApiCalls,
         estimatedTime |-> [seconds |-> estimatedSeconds,
                            minutes |-> Ceil(estimatedSeconds, 60)],
         breakdown |->
             [databases |-> databaseCalls, views |-> viewCalls,
              properties |-> propertyCalls, integrations |-> integrationCalls,
              automations |-> automationCalls, baseSetup |-> BaseCalls]
             @@ (IF includeSampleData
                 THEN [sampleData |-> sampleDataCalls] ELSE << >>),
         includeSampleData |-> includeSampleData,
         recommendations |-> generateRecommendations(tier, totalApiCalls)]

estimateDeploymentCost ==
    /\ tool = "idle"
    /\ \E tier \in TierInputs, opts \in EstimateOptions :
          /\ options' = [tier |-> tier, options |-> opts]
          /\ IF tier \notin DOMAIN tierCosts
             THEN Fail("Unknown tier")
             ELSE /\ tool' = "estimated"
                  /\ result' = Estimate(tier, opts)
    /\ UNCHANGED <<jsonFiles, fileIndex, schemas, package, dist, deployVars, utilVars>>

(* validateIntegrationConfig *)

\* position of the first key the tier does not offer, 0 when there is none
FirstUnavailable(keys, tier) ==
    LET bad == {x \in 1..Len(keys) :
                  ~ArrayIncludes(tierConfigurations[tier].integrations, keys[x])}
    IN  IF bad = {} THEN 0 ELSE CHOOSE x \in bad : \A y \in bad : x <= y

validateIntegrationConfig ==
    /\ tool = "idle"
    /\ \E tier \in Tiers, config \in IntegrationConfigs \cup {NoValue} :
          /\ options' = [tier |-> tier, integrationConfig |-> config]
          /\ IF config = NoValue
             THEN Fail("Integration configuration must be valid JSON")
             ELSE IF FirstUnavailable(config.keys, tier) # 0
             THEN /\ tool' = "failed"
                  /\ result' = [error |-> "not available in tier",
                                integration |->
                                    config.keys[FirstUnavailable(config.keys, tier)]]
             ELSE /\ tool' = "validated"
                  /\ result' = [valid |-> TRUE]
    /\ UNCHANGED <<jsonFiles, fileIndex, schemas, package, dist, deployVars, utilVars>>

(* convertSchemaToNotionProperties *)

EmptyObject == << >>

\* field declarations of a schema file
PropInputs ==
    { [type |-> "title"], [type |-> "select"],
      [type |-> "select", options |-> << "Open", "Closed" >>],
      [type |-> "number"], [type |-> "number", format |-> "dollar"],
      [type |-> "date"], [type |-> "checkbox"], [type |-> "text"],
      [type |-> "url"], [type |-> "email"], [type |-> "phone"],
      [type |-> "formula"] }

FieldNames == { "Title", "Budget" }

\* schemas: without a properties entry, with an empty one, with up to
\* two fields
SchemaInputs ==
    { [name |-> "projects"] }
    \cup { [name |-> "projects", properties |-> o] :
             o \in UNION { [fields -> PropInputs] : fields \in SUBSET FieldNames } }

defaultProperties ==
    [ Name |-> [title |-> EmptyObject],
      Status |-> [select |->
                    [options |-> << [name |-> "Planning", color |-> "yellow"],
                                    [name |-> "In Progress", color |-> "blue"],
                                    [name |-> "Completed", color |-> "green"],
                                    [name |-> "On Hold", color |-> "red"] >>]],
      Created |-> [created_time |-> EmptyObject] ]

convertPropertyToNotion(prop) ==
    CASE prop.type = "title" -> [title |-> EmptyObject]
      [] prop.type = "select" ->
            [select |->
               [options |->
                  IF "options" \in DOMAIN prop
                  THEN [x \in 1..Len(prop.options) |->
                          [name |-> prop.options[x], color |-> "default"]]
                  ELSE << >>]]
      [] prop.type = "number" ->
            [number |-> [format |-> IF "format" \in DOMAIN prop
                                    THEN prop.format ELSE "number"]]
      [] prop.type = "date" -> [date |-> EmptyObject]
      [] prop.type = "checkbox" -> [checkbox |-> EmptyObject]
      [] prop.type = "text" -> [rich_text |-> EmptyObject]
      [] prop.type = "url" -> [url |-> EmptyObject]
      [] prop.type = "email" -> [email |-> EmptyObject]
      [] prop.type = "phone" -> [phone_number |-> EmptyObject]
      [] OTHER -> [rich_text |-> EmptyObject]

\* an object, the empty one included, is truthy
convertSchemaToNotionProperties(schema) ==
    IF "properties" \in DOMAIN schema
    THEN [name \in DOMAIN schema.properties |->
            convertPropertyToNotion(schema.properties[name])]
    ELSE defaultProperties

\* convertSchemaToNotionProperties applied to a schema
applyConvertSchema ==
    /\ tool = "idle"
    /\ \E schema \in SchemaInputs :
          /\ options' = [schema |-> schema]
          /\ result' = [properties |-> convertSchemaToNotionProperties(schema)]
    /\ tool' = "converted"
    /\ UNCHANGED <<jsonFiles, fileIndex, schemas, package, dist, deployVars, utilVars>>

NextTools ==
    \/ applyConvertSchema
    \/ buildTemplate
    \/ readSchemaDirectory
    \/ readSchemaFile
    \/ createBuildPackage
    \/ writeBuildPackage
    \/ saveBuildComponents
    \/ applyGetViewType
    \/ estimateDeploymentCost
    \/ validateIntegrationConfig

\* one invocation of one of the three scripts
SpecTools == Init /\ [][NextTools]_vars

----------------------------------------------------------------------------
(* retryWithBackoff (src/utils/index.js) *)

MaxRetries == 4           \* greatest maxRetries argument

\* delay arguments, the default among them
Delays == { 100, 1000 }

RECURSIVE Pow(_, _)
\* Math.pow(b, e) for a natural e
Pow(b, e) == IF e = 0 THEN 1 ELSE b * Pow(b, e - 1)

Backoff_Linear(delay, i) == delay * (i + 1)

\* the timer of the catch block: delay * Math.pow(2, i)
Backoff(delay, i) == delay * Pow(2, i)

retryVars == <<retryArgs, attempt, retryLog, retryResult>>
healthVars == <<checks, checkLog, healthReport, reportFile, exitCode>>

\* entry and the loop test before the first call
retryWithBackoff ==
    /\ util = "idle"
    /\ \E maxRetries \in 0..MaxRetries, delay \in Delays :
          /\ retryArgs' = [maxRetries |-> maxRetries, delay |-> delay]
          /\ attempt' = 0
          /\ IF 0 < maxRetries
             THEN util' = "callFn" /\ UNCHANGED retryResult
             ELSE util' = "settled" /\ retryResult' = [resolved |-> "undefined"]
    /\ UNCHANGED <<retryLog, healthVars, deployVars, toolVars>>

\* return await fn() and the catch block up to the timer
callFn ==
    /\ util = "callFn"
    /\ \E ok \in BOOLEAN :
          /\ retryLog' = Append(retryLog, [op |-> "fn", ok |-> ok,
                                           i |-> attempt])
          /\ IF ok
             THEN /\ retryResult' = [resolved |-> [value |-> attempt]]
                  /\ util' = "settled"
             ELSE IF attempt = retryArgs.maxRetries - 1
             THEN /\ retryResult' = [rejected |-> [error |-> attempt]]
                  /\ util' = "settled"
             ELSE /\ util' = "setTimeout"
                  /\ UNCHANGED retryResult
    /\ UNCHANGED <<retryArgs, attempt, healthVars, deployVars, toolVars>>

\* the timer fires; i++ and the loop test
waitBackoff ==
    /\ util = "setTimeout"
    /\ retryLog' = Append(retryLog, [op |-> "wait",
                                     ms |-> Backoff(retryArgs.delay, attempt)])
    /\ attempt' = attempt + 1
    /\ util' = "callFn"
    /\ UNCHANGED <<retryArgs, retryResult, healthVars, deployVars, toolVars>>

----------------------------------------------------------------------------
(* Health check script (scripts/healthcheck.js) *)

MaxSamplePages == 2       \* most pages the integrity search returns

testCount == 5
TooSlowMs == 2000
SlowMs == 1000
UnhealthyErrorRate == 20
WarningErrorRate == 5

\* durations of one performance test
ResponseTimes == { 500, 1500, 2500 }

CheckNames ==
    << "notion_connectivity", "database_access", "data_integrity",
       "api_performance", "error_rates" >>

Pending == [status |-> "pending"]

SetCheck(name, status) ==
    /\ checks' = [checks EXCEPT ![name] = [status |-> status]]
    /\ checkLog' = Append(checkLog, name)

\* Math.round(a / b) for a >= 0 and b > 0
Round(a, b) == (2 * a + b) \div (2 * b)

CountStatus(c, status) == Cardinality({k \in DOMAIN c : c[k].status = status})

calculateOverallHealth_WarningFirst(c) ==
    [status |-> IF CountStatus(c, "warning") > 0 THEN "warning"
                ELSE IF CountStatus(c, "unhealthy") > 0 THEN "unhealthy"
                ELSE "healthy",
     score |-> Round(CountStatus(c, "healthy") * 100
                     + CountStatus(c, "warning") * 50,
                     Cardinality(DOMAIN c))]

calculateOverallHealth(c) ==
    [status |-> IF CountStatus(c, "unhealthy") > 0 THEN "unhealthy"
                ELSE IF CountStatus(c, "warning") > 0 THEN "warning"
                ELSE "healthy",
     score |-> Round(CountStatus(c, "healthy") * 100
                     + CountStatus(c, "warning") * 50,
                     Cardinality(DOMAIN c))]

\* number of recommendations generateRecommendations pushes
RecommendationCount(c) ==
    CountStatus(c, "unhealthy")
    + Cardinality({k \in {"database_access", "api_performance"} :
                      c[k].status = "warning"})

\* entry of performHealthCheck
performHealthCheck ==
    /\ util = "idle"
    /\ checks' = [k \in {CheckNames[x] : x \in 1..Len(CheckNames)} |-> Pending]
    /\ util' = "checkNotionConnectivity"
    /\ UNCHANGED <<checkLog, healthReport, reportFile, exitCode, retryVars,
                   deployVars, toolVars>>

checkNotionConnectivity ==
    /\ util = "checkNotionConnectivity"
    /\ \E ok \in BOOLEAN :
          SetCheck("notion_connectivity", IF ok THEN "healthy" ELSE "unhealthy")
    /\ util' = "checkDatabaseAccess"
    /\ UNCHANGED <<healthReport, reportFile, exitCode, retryVars,
                   deployVars, toolVars>>

checkDatabaseAccess ==
    /\ util = "checkDatabaseAccess"
    /\ \E outcome \in {"error", "empty", "found"} :
          SetCheck("database_access",
                   IF outcome = "error" THEN "unhealthy"
                   ELSE IF outcome = "empty" THEN "warning" ELSE "healthy")
    /\ util' = "checkDataIntegrity"
    /\ UNCHANGED <<healthReport, reportFile, exitCode, retryVars,
                   deployVars, toolVars>>

\* the search and the retrieval of each page found
checkDataIntegrity ==
    /\ util = "checkDataIntegrity"
    /\ \E ok \in BOOLEAN, pages \in 0..MaxSamplePages :
          \E integrityIssues \in 0..pages :
              SetCheck("data_integrity",
                       IF ~ok THEN "unhealthy"
                       ELSE IF integrityIssues = 0 THEN "healthy" ELSE "warning")
    /\ util' = "checkApiPerformance"
    /\ UNCHANGED <<healthReport, reportFile, exitCode, retryVars,
                   deployVars, toolVars>>

\* Promise.all of the three tests; avgResponseTime is their sum over 3
checkApiPerformance ==
    /\ util = "checkApiPerformance"
    /\ \E ok \in BOOLEAN, results \in [1..3 -> ResponseTimes] :
          LET sum == results[1] + results[2] + results[3]
          IN  SetCheck("api_performance",
                       IF ~ok THEN "unhealthy"
                       ELSE IF sum > TooSlowMs * 3 THEN "unhealthy"
                       ELSE IF sum > SlowMs * 3 THEN "warning"
                       ELSE "healthy")
    /\ util' = "checkErrorRates"
    /\ UNCHANGED <<healthReport, reportFile, exitCode, retryVars,
                   deployVars, toolVars>>

\* the five probes, calculateOverallHealth and the return of the report
checkErrorRates ==
    /\ util = "checkErrorRates"
    /\ \E errorCount \in 0..testCount :
          LET errorRate == (errorCount * 100) \div testCount
          IN  SetCheck("error_rates",
                       IF errorRate > UnhealthyErrorRate THEN "unhealthy"
                       ELSE IF errorRate > WarningErrorRate THEN "warning"
                       ELSE "healthy")
    /\ LET overallHealth == calculateOverallHealth(checks')
       IN  healthReport' = [overall_status |-> overallHealth.status,
                            overall_score |-> overallHealth.score,
                            checks |-> checks',
                            recommendations |-> RecommendationCount(checks')]
    /\ util' = "writeReport"
    /\ UNCHANGED <<reportFile, exitCode, retryVars, deployVars, toolVars>>

\* CLI: writeFileSync of the report and process.exit, in then or in catch
writeReport ==
    /\ util = "writeReport"
    /\ \E ok \in BOOLEAN :
          IF ok
          THEN /\ reportFile' = healthReport
               /\ exitCode' = IF healthReport.overall_status = "healthy"
                              THEN 0 ELSE 1
          ELSE /\ exitCode' = 1
               /\ UNCHANGED reportFile
    /\ util' = "exited"
    /\ UNCHANGED <<checks, checkLog, healthReport, retryVars, deployVars, toolVars>>

\* CLI with the argument 'quick'
quickHealthCheck ==
    /\ util = "idle"
    /\ \E ok \in BOOLEAN :
          /\ healthReport' = [healthy |-> ok]
          /\ exitCode' = IF ok THEN 0 ELSE 1
    /\ util' = "exited"
    /\ UNCHANGED <<checks, checkLog, reportFile, retryVars, deployVars, toolVars>>

NextUtils ==
    \/ retryWithBackoff
    \/ callFn
    \/ waitBackoff
    \/ performHealthCheck
    \/ checkNotionConnectivity
    \/ checkDatabaseAccess
    \/ checkDataIntegrity
    \/ checkApiPerformance
    \/ checkErrorRates
    \/ writeReport
    \/ quickHealthCheck

\* one call of retryWithBackoff or one invocation of the health check
SpecUtils == Init /\ [][NextUtils]_vars

----------------------------------------------------------------------------
(* Vocabulary of the properties.  A run is read through what it added: the
   calls logged and the entries appended since deployConstructionTemplate
   was entered. *)

After(seq, from) == SubSeq(seq, from + 1, Len(seq))

Steps == deploymentState.completedSteps
Resources == deploymentState.createdResources
Errors == deploymentState.errors

RunSteps == After(Steps, entry.steps)
RunResources == After(Resources, entry.resources)
RunErrors == After(Errors, entry.errors)
RunCalls == After(calls, deploymentState.startTime)

\* a run is under way or has ended and not been followed by another
InRun == pc # "idle"

CleanEntry == entry.steps = 0 /\ entry.resources = 0 /\ entry.errors = 0

InSeq(x, seq) == \E y \in 1..Len(seq) : seq[y] = x

Count(seq, P(_)) == Cardinality({x \in 1..Len(seq) : P(seq[x])})

SchemaNames ==
    IF buildPackage = NoValue THEN <<>>
    ELSE [x \in 1..Len(buildPackage.schemas) |-> buildPackage.schemas[x].name]

IsSearch(c) == c.op = "search"
IsDatabaseCreate(c) == c.op = "databases.create"
IsCreate(c) == c.op \in {"databases.create", "pages.create"}
IsRecordCreate(c) == c.op = "pages.create" /\ c.what = "record"
IsPause(c, ms) == c.op = "sleep" /\ c.ms = ms
IsProbe(c) == c.op = "users.me"

\* what the remote side saw in this run: the schemas whose creation was
\* started, in issue order, and the schemas whose database exists
AttemptedNames ==
    LET s == SelectSeq(RunCalls, IsSearch) IN [x \in 1..Len(s) |-> s[x].what]

DatabaseAcknowledged(name) ==
    \E x \in 1..Len(RunCalls) :
        IsDatabaseCreate(RunCalls[x]) /\ RunCalls[x].ok /\ RunCalls[x].what = name

DatabaseFailed(name) == ~DatabaseAcknowledged(name)

IsDatabaseError(e) == e.phase = "databases"

ErrorNames ==
    LET s == SelectSeq(RunErrors, IsDatabaseError) IN [x \in 1..Len(s) |-> s[x].resource]

DatabaseNames ==
    LET s == SelectSeq(RunResources, IsDatabase) IN [x \in 1..Len(s) |-> s[x].name]

ProbeAcknowledged ==
    \E x \in 1..Len(RunCalls) : IsProbe(RunCalls[x]) /\ RunCalls[x].ok

InPhase1 ==
    pc \in {"deployPhase1_Databases", "createParentPage", "createDatabase",
            "sleepAfterDatabase"}

Phase1Over == InRun /\ ProbeAcknowledged /\ ~InPhase1

----------------------------------------------------------------------------
(* C1 - Soft-failure isolation in deployPhase1_Databases: once the phase is
   over, every schema of the build package was attempted exactly once, in
   list order, whatever failed; the phase added to errors exactly one
   'databases' entry for each schema whose creation failed, to
   createdResources exactly one 'database' entry for each schema whose
   creation was acknowledged, and 'databases_deployed' to completedSteps. *)
C1_SoftFailureIsolation ==
    Phase1Over =>
        /\ AttemptedNames = SchemaNames
        /\ ErrorNames = SelectSeq(SchemaNames, DatabaseFailed)
        /\ Len(RunErrors) = Len(ErrorNames)
        /\ DatabaseNames = SelectSeq(SchemaNames, DatabaseAcknowledged)
        /\ Count(RunSteps, LAMBDA st : st = "databases_deployed") = 1

\* the first of three schemas failed and a later one was created
C1_Witness ==
    /\ Phase1Over
    /\ Len(SchemaNames) = 3
    /\ DatabaseFailed("projects")
    /\ DatabaseAcknowledged("clients")
    /\ Len(RunErrors) >= 1

----------------------------------------------------------------------------
Aborting == pc \in {"catch", "aborted"}

EnvironmentMessages ==
    { "CLIENT_NAME environment variable is required",
      "NOTION_TOKEN environment variable is required" }
ArtifactMessages ==
    { "Build artifacts directory not found. Run build-template.js first." }
ProbeMessages == { "Failed to connect to Notion" }

\* the steps that precede the phase an early hard failure comes from
StepsBefore(message) ==
    IF message \in EnvironmentMessages THEN <<>>
    ELSE IF message \in ArtifactMessages THEN SubSeq(StepOrder, 1, 1)
    ELSE SubSeq(StepOrder, 1, 2)

EarlyHardFailure ==
    /\ Aborting
    /\ thrown.message \in EnvironmentMessages \cup ArtifactMessages \cup ProbeMessages

(* C2 - Hard-failure short-circuit: when a required input is missing, no
   artifact matches the tier, or the identity probe fails, the run goes to
   the catch block at once: it issues no creation call, records no step from
   the failing phase on (so it never records 'databases_deployed'), does not
   try the failed step again, and the caller receives the error.  A failed
   identity probe is the last remote call of its run. *)
C2_HardFailureShortCircuit ==
    /\ EarlyHardFailure =>
          /\ \A x \in 1..Len(RunCalls) :
                ~IsCreate(RunCalls[x]) /\ ~IsSearch(RunCalls[x])
          /\ RunSteps = StepsBefore(thrown.message)
          /\ ~InSeq("databases_deployed", RunSteps)
          /\ Count(RunCalls, IsProbe) <= 1
          /\ report = NoValue
    /\ InRun =>
          \A x \in 1..Len(RunCalls) :
              (IsProbe(RunCalls[x]) /\ ~RunCalls[x].ok) =>
                  /\ x = Len(RunCalls)
                  /\ Aborting
                  /\ thrown.message \in ProbeMessages

\* the caller has received the error of a failed identity probe
C2_Witness ==
    /\ pc = "aborted"
    /\ thrown.message \in ProbeMessages
    /\ \E x \in 1..Len(RunCalls) : IsProbe(RunCalls[x]) /\ ~RunCalls[x].ok

----------------------------------------------------------------------------
StepRank(step) == CHOOSE r \in 1..Len(StepOrder) : StepOrder[r] = step

SamplePhaseCalled ==
    \E x \in 1..Len(RunCalls) :
        IsRecordCreate(RunCalls[x]) \/ IsPause(RunCalls[x], RecordPauseMs)

(* C3 - Phase order: the steps a run records appear in the fixed order, none
   twice, and a step is recorded only when every earlier step is recorded,
   except that 'sample_data_deployed' may be missing, in which case the
   sample-data phase was skipped as a whole (it issued no call). *)
C3_PhaseOrder ==
    /\ \A a, b \in 1..Len(RunSteps) :
          /\ InSeq(RunSteps[a], StepOrder)
          /\ a < b => StepRank(RunSteps[a]) < StepRank(RunSteps[b])
    /\ \A a \in 1..Len(RunSteps) : \A r \in 1..(StepRank(RunSteps[a]) - 1) :
          \/ InSeq(StepOrder[r], RunSteps)
          \/ StepOrder[r] = "sample_data_deployed" /\ ~SamplePhaseCalled

\* a run that skipped the sample-data phase and was finalized
C3_Witness ==
    /\ pc = "done"
    /\ ~InSeq("sample_data_deployed", RunSteps)
    /\ InSeq("deployment_finalized", RunSteps)
    /\ Len(RunSteps) = 7

----------------------------------------------------------------------------
(* C4 - Run isolation of DeploymentState: at the start of every invocation
   completedSteps, createdResources and errors hold nothing left by an
   earlier run of the same process. *)
C4_RunIsolation ==
    pc = "idle" => Steps = <<>> /\ Resources = <<>> /\ Errors = <<>>

----------------------------------------------------------------------------
FailedSchemas == Cardinality({x \in 1..Len(SchemaNames) : DatabaseFailed(SchemaNames[x])})

(* C5 - Report tallies: a run that began with the three lists empty and
   returns a report saw its identity probe, summary page and snapshot
   succeed; with n schemas of which f failed, the report has
   summary.databases = n - f and errors = f, and the last recorded step is
   'deployment_finalized'. *)
C5_ReportTallies ==
    (pc = "done" /\ CleanEntry) =>
        /\ report.summary.databases = Len(SchemaNames) - FailedSchemas
        /\ report.errors = FailedSchemas
        /\ Len(Steps) > 0
        /\ Steps[Len(Steps)] = "deployment_finalized"

\* three schemas, exactly the second failed: the report shows 2 and 1
C5_Witness ==
    /\ pc = "done"
    /\ CleanEntry
    /\ Len(SchemaNames) = 3
    /\ DatabaseFailed("tasks")
    /\ report.summary.databases = 2
    /\ report.errors = 1

----------------------------------------------------------------------------
FailedRecords == Count(RunCalls, LAMBDA c : IsRecordCreate(c) /\ ~c.ok)

(* C6 - Per-record soft failures are recorded: every failed sample-record
   creation has its entry in errors, so the report's error count is the
   number of failed databases plus the number of failed records. *)
C6_RecordFailuresRecorded ==
    /\ Len(RunErrors) - Len(ErrorNames) = FailedRecords
    /\ pc = "done" => report.errors = FailedSchemas + FailedRecords

----------------------------------------------------------------------------
(* C7 - Every acknowledged remote creation is tracked: each remote object
   whose creation was acknowledged has a CreatedResource entry with its id. *)
C7_EveryCreationTracked ==
    \A x \in 1..Len(calls) :
        (IsCreate(calls[x]) /\ calls[x].ok) =>
            \E y \in 1..Len(Resources) : Resources[y].id = calls[x].id

----------------------------------------------------------------------------
(* C8 - Abort performs no compensation: the step out of the catch block
   issues no remote call, leaves completedSteps, createdResources and errors
   as they were at the failure, and delivers the error that was caught. *)
C8_AbortNoCompensation ==
    [][pc = "catch" =>
          /\ calls' = calls
          /\ Steps' = Steps
          /\ Resources' = Resources
          /\ Errors' = Errors
          /\ pc' = "aborted"
          /\ thrown' = thrown
          /\ thrown # NoError]_vars

\* an abort with remote resources already created
C8_Witness ==
    /\ pc = "aborted"
    /\ Len(RunResources) >= 2
    /\ Len(cleanupLog) >= 2

----------------------------------------------------------------------------
(* C9 - Hard-failure error carries the partial state: the error delivered
   to the caller holds the DeploymentState as it stood at the failure. *)
C9_ErrorCarriesState ==
    pc = "aborted" =>
        /\ "deploymentState" \in DOMAIN thrown
        /\ thrown.deploymentState = deploymentState

----------------------------------------------------------------------------
(* C10 - Database pacing: whatever is issued directly after an acknowledged
   database creation is the pacing pause of 1000 ms, so no database-creation
   attempt follows a successful one without that pause. *)
C10_DatabasePacing ==
    \A x \in 1..Len(calls) :
        (IsDatabaseCreate(calls[x]) /\ calls[x].ok) =>
            /\ x = Len(calls) => pc = "sleepAfterDatabase"
            /\ x < Len(calls) => IsPause(calls[x + 1], DatabasePauseMs)

\* a created database, the pause, then the next attempt
C10_Witness ==
    \E x \in 1..Len(calls) :
        /\ IsDatabaseCreate(calls[x]) /\ calls[x].ok
        /\ x + 2 <= Len(calls)
        /\ IsPause(calls[x + 1], DatabasePauseMs)
        /\ IsSearch(calls[x + 2])

----------------------------------------------------------------------------
\* the record creations of the run, as positions of its call log
RecordCalls == {x \in 1..Len(RunCalls) : IsRecordCreate(RunCalls[x])}

\* x and y are record creations with no record creation between them
ConsecutiveRecords(x, y) ==
    /\ x \in RecordCalls /\ y \in RecordCalls /\ x < y
    /\ \A z \in RecordCalls : ~(x < z /\ z < y)

\* C11: Record pacing.  Between any two consecutive sample-record creation
\* calls of a run, whether they go to the same database or to different
\* databases, a pause of 500 ms is taken.
C11_RecordPacing ==
    \A x \in RecordCalls : \A y \in RecordCalls :
        ConsecutiveRecords(x, y)
            => \E z \in (x + 1)..(y - 1) : IsPause(RunCalls[z], RecordPauseMs)

----------------------------------------------------------------------------
\* the step just taken is the guard of the sample-data phase, and it found
\* no sample data in the package or INCLUDE_SAMPLE_DATA set to 'false'
SampleDataSkipStep ==
    /\ pc = "deployPhase3_SampleData"
    /\ sampleDataEnv' # NoValue
    /\ (buildPackage.sampleData = NoValue \/ sampleDataEnv' = [value |-> "false"])

\* the step just taken appended 'sample_data_deployed' to completedSteps
SampleStepRecorded ==
    /\ Len(Steps') = Len(Steps) + 1
    /\ Steps'[Len(Steps')] = "sample_data_deployed"

\* C12: Sample-data skip.  When the package has no sample data or
\* INCLUDE_SAMPLE_DATA is 'false', the sample-data phase issues no remote
\* call, leaves createdResources, errors and completedSteps as they were
\* ('sample_data_deployed' is not recorded: only the end of the record loop
\* records it) and hands over to the integrations phase, which records its
\* step and hands over to finalization.
C12_SampleDataSkip ==
    [][ /\ SampleDataSkipStep
            => /\ calls' = calls
               /\ deploymentState' = deploymentState
               /\ thrown' = thrown
               /\ pc' = "deployPhase4_Integrations"
        /\ SampleStepRecorded => pc = "sampleDataLoop"
        /\ pc = "deployPhase4_Integrations"
            => /\ pc' = "createDeploymentSummaryPage"
               /\ Steps' = Append(Steps, "integrations_deployed") ]_vars

\* a run with a created database and a seed table skips the phase because
\* of the environment flag
C12_Witness ==
    /\ pc = "deployPhase4_Integrations"
    /\ sampleDataEnv = [value |-> "false"]
    /\ buildPackage.sampleData # NoValue
    /\ \E x \in 1..Len(RunResources) : IsDatabase(RunResources[x])
    /\ RecordCalls = {}
    /\ ~InSeq("sample_data_deployed", RunSteps)

----------------------------------------------------------------------------
\* the record loop of the run has run to its end
SamplePhaseDone == InRun /\ InSeq("sample_data_deployed", RunSteps)

\* record creations of the run issued against the database with remote id
RecordCallsTo(id) == {x \in RecordCalls : RunCalls[x].parent = id}

\* the created resource is a database whose name has a seed list
HasSeedList(r) ==
    IsDatabase(r) /\ SeedLength(buildPackage.sampleData, r.name) >= 0

\* C13: Sample-record cap.  Once the sample-data phase has gone through
\* createdResources, every database in it whose name has a seed list of
\* length L has received exactly min(5, L) record creations, failed ones
\* included, and every other created resource none.  At every moment a
\* record creation goes to an acknowledged database creation whose name has
\* a seed list, and no database has received more than min(5, L).
C13_SampleRecordCap ==
    /\ SamplePhaseDone =>
          \A x \in 1..Len(Resources) :
              Cardinality(RecordCallsTo(Resources[x].id)) =
                  IF HasSeedList(Resources[x])
                  THEN Min(5, SeedLength(buildPackage.sampleData, Resources[x].name))
                  ELSE 0
    /\ InRun =>
          \A c \in RecordCalls :
              /\ RunCalls[c].parent \in 1..Len(calls)
              /\ IsDatabaseCreate(calls[RunCalls[c].parent])
              /\ calls[RunCalls[c].parent].ok
              /\ \E x \in 1..Len(Resources) :
                    /\ Resources[x].id = RunCalls[c].parent
                    /\ HasSeedList(Resources[x])
                    /\ Cardinality(RecordCallsTo(Resources[x].id)) <=
                          Min(5, SeedLength(buildPackage.sampleData, Resources[x].name))

\* a database with ten seed records received five creations, one of which
\* failed, next to a database whose creation failed
C13_Witness ==
    /\ SamplePhaseDone
    /\ \E x \in 1..Len(Resources) :
          /\ HasSeedList(Resources[x])
          /\ SeedLength(buildPackage.sampleData, Resources[x].name) = 10
          /\ Cardinality(RecordCallsTo(Resources[x].id)) = 5
          /\ \E c \in RecordCallsTo(Resources[x].id) : ~RunCalls[c].ok
    /\ \E y \in 1..Len(RunCalls) :
          IsDatabaseCreate(RunCalls[y]) /\ ~RunCalls[y].ok

----------------------------------------------------------------------------
(* Vocabulary of the builder properties *)

\* buildTemplate has returned a build package
Built == tool = "built"

\* names of the schemas of the returned package, in package order
BuiltNames == [x \in 1..Len(result.schemas) |-> result.schemas[x].name]

\* the catalog of the tier the build was asked for
Catalog == templateConfigs[options.tier]

\* position of a name in a list of distinct names
Rank(name, list) == CHOOSE x \in 1..Len(list) : list[x] = name

\* C14: Creation order follows the tier catalog.  The schemas of a build
\* package returned by buildTemplate are in the relative order of their names
\* in templateConfigs[tier].databases, whatever the schema directory holds
\* and in whatever order it is listed.
C14_CatalogOrder ==
    Built =>
        \A x \in 1..Len(BuiltNames) : \A y \in 1..Len(BuiltNames) :
            x < y => Rank(BuiltNames[x], Catalog.databases)
                        < Rank(BuiltNames[y], Catalog.databases)

\* C15: One schema per resource type.  For every tier and every content of
\* the schema directory, the package returned by buildTemplate holds exactly
\* one schema for each name of templateConfigs[tier].databases, hence 5, 10
\* or 15 schemas.
C15_OneSchemaPerType ==
    Built =>
        /\ \A z \in 1..Len(Catalog.databases) :
              Cardinality({x \in 1..Len(BuiltNames) :
                              BuiltNames[x] = Catalog.databases[z]}) = 1
        /\ Len(BuiltNames) = Len(Catalog.databases)
        /\ Len(BuiltNames) =
              (CASE options.tier = "starter" -> 5
                 [] options.tier = "professional" -> 10
                 [] options.tier = "enterprise" -> 15)

\* C16: Compiler metadata consistency.  In the package returned by
\* buildTemplate, and in the copy written to dist, metadata.databaseCount
\* is the length of schemas, metadata.viewCount is the length of views, and
\* views holds one entry per name of templateConfigs[tier].views, in
\* catalog order.
C16_MetadataConsistency ==
    /\ Built =>
          /\ result.metadata.databaseCount = Len(result.schemas)
          /\ result.metadata.viewCount = Len(result.views)
          /\ Len(result.views) = Len(Catalog.views)
          /\ \A x \in 1..Len(result.views) :
                result.views[x].name = Catalog.views[x]
    /\ \A f \in 1..Len(dist) :
          /\ dist[f].content.metadata.databaseCount = Len(dist[f].content.schemas)
          /\ dist[f].content.metadata.viewCount = Len(dist[f].content.views)

\* a professional package built from a directory that holds two of the ten
\* schemas of the tier
C16_Witness ==
    /\ Built
    /\ options.tier = "professional"
    /\ result.metadata.databaseCount = 2
    /\ Len(result.schemas) = 2
    /\ result.metadata.viewCount = 8

----------------------------------------------------------------------------
\* the tiers, lowest first
TierOrder == << "starter", "professional", "enterprise" >>

\* the elements of an array
Elements(array) == {array[x] : x \in 1..Len(array)}

\* the tier a script was started with, "" when it was started with none
TierInUse == IF "tier" \in DOMAIN options THEN options.tier ELSE ""

\* tier a lists no database name and no integration that tier b lacks
ListsWithin(a, b) ==
    /\ Elements(templateConfigs[a].databases)
           \subseteq Elements(templateConfigs[b].databases)
    /\ Elements(tierConfigurations[a].integrations)
           \subseteq Elements(tierConfigurations[b].integrations)

\* C17: Tier monotonicity.  The database names of templateConfigs and the
\* integrations of tierConfigurations grow with the tier: whatever tier a
\* script runs with, that tier lists all that the lower tiers list, and the
\* higher tiers list all that it lists.
C17_TierMonotonicity ==
    TierInUse \in Tiers =>
        \A a \in 1..Len(TierOrder) : \A b \in 1..Len(TierOrder) :
            (a < b /\ TierInUse \in {TierOrder[a], TierOrder[b]})
                => ListsWithin(TierOrder[a], TierOrder[b])

\* the validator accepted, for the enterprise tier, a configuration that
\* names both integrations of the professional tier
C17_Witness ==
    /\ tool = "validated"
    /\ options.tier = "enterprise"
    /\ Elements(options.integrationConfig.keys)
          = Elements(tierConfigurations["professional"].integrations)

----------------------------------------------------------------------------
ViewTypes == {"table", "kanban", "timeline", "calendar"}

\* the view name handed to getViewType holds the word
NameHas(word) == Includes(Chars[options.viewName], Chars[word])

\* C18: getViewType is total and decides by first match.  Every view name
\* gets exactly one of the four kinds: kanban when it holds 'kanban';
\* else timeline when it holds 'timeline' or 'schedule'; else table when it
\* holds 'dashboard' or 'overview'; else calendar when it holds 'calendar';
\* else table.
C18_ViewTypeFirstMatch ==
    tool = "viewTyped" =>
        /\ result.type \in ViewTypes
        /\ result.type = "kanban" <=> NameHas("kanban")
        /\ result.type = "timeline"
              <=> /\ ~NameHas("kanban")
                  /\ NameHas("timeline") \/ NameHas("schedule")
        /\ result.type = "calendar"
              <=> /\ ~NameHas("kanban")
                  /\ ~NameHas("timeline") /\ ~NameHas("schedule")
                  /\ ~NameHas("dashboard") /\ ~NameHas("overview")
                  /\ NameHas("calendar")

\* a name that holds 'calendar' and 'overview' is a table
C18_Witness ==
    /\ tool = "viewTyped"
    /\ NameHas("calendar") /\ NameHas("overview")
    /\ result.type = "table"

----------------------------------------------------------------------------
\* the counts estimateDeploymentCost was asked about
TierCost == tierCosts[options.tier]

\* sample data is part of the estimate unless options.sampleData is false
SampleDataAsked == options.options # [sampleData |-> FALSE]

\* C19: Estimator arithmetic.  totalApiCalls is 2 * databases + views +
\* properties + 3 * integrations + 2 * automations + 20, plus the sum of the
\* seed counts exactly when sample data is included; the breakdown entries
\* sum to totalApiCalls; estimatedTime.seconds is the ceiling of
\* totalApiCalls / 3; the off-peak recommendation is present exactly when
\* totalApiCalls exceeds 1000.
C19_EstimatorArithmetic ==
    tool = "estimated" =>
        /\ result.totalApiCalls =
              2 * TierCost.databases + TierCost.views + TierCost.properties
              + 3 * TierCost.integrations + 2 * TierCost.automations + 20
              + (IF SampleDataAsked THEN SumValues(TierCost.sampleData) ELSE 0)
        /\ SumValues(result.breakdown) = result.totalApiCalls
        /\ 3 * result.estimatedTime.seconds >= result.totalApiCalls
        /\ 3 * (result.estimatedTime.seconds - 1) < result.totalApiCalls
        /\ ArrayIncludes(result.recommendations, OffPeakAdvice)
              <=> result.totalApiCalls > 1000

\* an estimate above 1000 calls that is not a multiple of 3
C19_Witness ==
    /\ tool = "estimated"
    /\ result.totalApiCalls > 1000
    /\ result.totalApiCalls % 3 # 0
    /\ result.includeSampleData
    /\ ArrayIncludes(result.recommendations, OffPeakAdvice)

\* C20: Estimator and compiler share tier counts.  The database and view
\* counts the estimator uses for a tier are the numbers of database names
\* and view names of templateConfigs for that tier.
C20_SharedTierCounts ==
    tool = "estimated" =>
        /\ TierCost.databases = Len(templateConfigs[options.tier].databases)
        /\ TierCost.views = Len(templateConfigs[options.tier].views)

----------------------------------------------------------------------------
\* C22: A missing tier is a hard failure.  When DEPLOYMENT_TIER is absent,
\* initializeEnvironment aborts the run: 'environment_init' is not recorded,
\* no build package is loaded and no remote call is made.
C22_MissingTierAborts ==
    envTier = [value |-> ""] =>
        /\ Aborting
        /\ ~InSeq("environment_init", RunSteps)
        /\ buildPackage = NoValue
        /\ RunCalls = << >>

----------------------------------------------------------------------------
\* the files of the listing whose name starts with 'template-<tier>' and
\* ends with '.json', for the tier of the run
Candidates(listing) ==
    {f \in listing : /\ f.prefix = "template"
                     /\ f.tier = deploymentState.tier
                     /\ f.ext = "json"}

\* loadBuildArtifacts picks, among the candidates of the listing it gets,
\* one that no candidate follows in the order of names, and picks nothing
\* when there is no candidate
SelectsLatestCandidate ==
    pc = "loadBuildArtifacts" =>
        /\ pc' = "readBuildFile" =>
              /\ buildFile' \in Candidates(files')
              /\ \A g \in Candidates(files') :
                    LexLess(Digits(g.stamp), Digits(buildFile'.stamp))
                    \/ g = buildFile'
        /\ (pc' # pc /\ Candidates(files') = {}) => pc' = "catch"

\* the step that follows the selection appends 'artifacts_loaded'
RecordsArtifactsLoaded ==
    /\ Steps' = Append(Steps, "artifacts_loaded")
    /\ buildPackage'.tier = buildFile.tier
    /\ pc' = "initializeNotionClient"

\* C23: Artifact selection, as claimed.  Among the files of dist whose name
\* starts with 'template-<tier>' and ends with '.json', loadBuildArtifacts
\* loads the lexicographically greatest, only such files are candidates,
\* and with at least one candidate the phase records 'artifacts_loaded'.
C23_ArtifactSelection ==
    [][ /\ SelectsLatestCandidate
        /\ pc = "readBuildFile" => RecordsArtifactsLoaded ]_vars

\* C23, amended.  The selection is as claimed; with at least one candidate
\* the phase records 'artifacts_loaded' when the selected file is read and
\* parsed, and aborts the run without recording it otherwise.
C23_ArtifactSelectionAmended ==
    [][ /\ SelectsLatestCandidate
        /\ pc = "readBuildFile" =>
              \/ RecordsArtifactsLoaded
              \/ /\ pc' = "catch"
                 /\ Steps' = Steps
                 /\ buildPackage' = buildPackage ]_vars

\* of the stamps 9 and 10 the file with 9 was selected
C23_Witness ==
    /\ pc = "readBuildFile"
    /\ Cardinality(Candidates(files)) = 2
    /\ buildFile.stamp = 9
    /\ \E g \in Candidates(files) : g.stamp = 10

----------------------------------------------------------------------------
\* the run has returned a report
Finalized ==
    /\ pc = "done"
    /\ report # NoValue
    /\ thrown = NoError
    /\ InSeq("deployment_finalized", RunSteps)

\* the run has thrown, after the cleanup listing
AbortedOutcome ==
    /\ pc = "aborted"
    /\ thrown # NoError
    /\ report = NoValue
    /\ ~InSeq("deployment_finalized", RunSteps)
    /\ Len(cleanupLog) = Len(Resources)

\* C24: Termination.  When every remote call and file operation returns,
\* a run of deployConstructionTemplate ends, for every build package and
\* every pattern of failures, and it ends either finalized (a report is
\* returned and 'deployment_finalized' is recorded) or aborted (an error is
\* thrown after the cleanup listing), never both, and stays so.
C24_Termination ==
    /\ <>(Finalized \/ AbortedOutcome)
    /\ [](pc \in {"done", "aborted"} => (Finalized \/ AbortedOutcome))
    /\ [](~(Finalized /\ AbortedOutcome))
    /\ [](Finalized => []Finalized)
    /\ [](AbortedOutcome => []AbortedOutcome)

\* a run finalized although a database creation and a record creation failed
C24_Witness ==
    /\ Finalized
    /\ Len(RunErrors) > 0
    /\ \E c \in RecordCalls : ~RunCalls[c].ok

----------------------------------------------------------------------------
\* the snapshots the current run has written
RunSnapshots ==
    {x \in 1..Len(persisted) :
        InRun /\ persisted[x].startTime = deploymentState.startTime}

\* what a snapshot holds of the run that wrote it
SnapshotSteps(snap) == After(snap.completedSteps, entry.steps)
SnapshotResources(snap) == After(snap.createdResources, entry.resources)

SummaryAcknowledged ==
    \E c \in 1..Len(RunCalls) :
        RunCalls[c].op = "pages.create" /\ RunCalls[c].what = "summary_page"
        /\ RunCalls[c].ok

\* C27: Finalization order.  The summary page is created and recorded in
\* createdResources first, then the snapshot is persisted, then
\* 'deployment_finalized' is appended, then the report is computed.  The
\* snapshot of a run holds the summary_page resource and every step the run
\* completed before, but not 'deployment_finalized', and the report's
\* completedSteps count is one more than the snapshot's.
C27_FinalizationOrder ==
    /\ Cardinality(RunSnapshots) <= 1
    /\ \A x \in RunSnapshots :
          /\ SummaryAcknowledged
          /\ SnapshotResources(persisted[x]) # << >>
          /\ SnapshotResources(persisted[x])
                   [Len(SnapshotResources(persisted[x]))].type = "summary_page"
          /\ ~InSeq("deployment_finalized", SnapshotSteps(persisted[x]))
          /\ RunSteps = Append(SnapshotSteps(persisted[x]), "deployment_finalized")
          /\ report # NoValue
                => report.completedSteps = Len(persisted[x].completedSteps) + 1
    /\ (InRun /\ InSeq("deployment_finalized", RunSteps)) => RunSnapshots # {}
    /\ (InRun /\ report # NoValue)
          => (RunSnapshots # {} /\ InSeq("deployment_finalized", RunSteps))

\* a finalized run with its snapshot and its report
C27_Witness ==
    /\ pc = "done"
    /\ \E x \in RunSnapshots :
          /\ Len(SnapshotSteps(persisted[x])) = 7
          /\ report.completedSteps = Len(persisted[x].completedSteps) + 1
          /\ \E y \in 1..Len(SnapshotResources(persisted[x])) :
                IsDatabase(SnapshotResources(persisted[x])[y])

----------------------------------------------------------------------------
\* the creation of the summary page was rejected in this run
SummaryFailed ==
    \E c \in 1..Len(RunCalls) :
        RunCalls[c].op = "pages.create" /\ RunCalls[c].what = "summary_page"
        /\ ~RunCalls[c].ok

\* the write of the snapshot was rejected in this run
SnapshotFailed == thrown = [message |-> "cannot write deployment metadata"]

\* every database creation acknowledged in this run is in createdResources
CreatedDatabasesListed ==
    \A c \in 1..Len(RunCalls) :
        (IsDatabaseCreate(RunCalls[c]) /\ RunCalls[c].ok)
            => \E x \in 1..Len(Resources) :
                  /\ IsDatabase(Resources[x])
                  /\ Resources[x].id = RunCalls[c].id
                  /\ Resources[x].name = RunCalls[c].what

\* C28: A failure while creating the summary page or while writing the
\* snapshot is a hard failure although the databases are deployed: the run
\* aborts, 'deployment_finalized' is not recorded, no report is returned, a
\* summary-page failure leaves no snapshot, and createdResources still lists
\* every database the run created.
C28_FinalizationHardFailure ==
    (InRun /\ (SummaryFailed \/ SnapshotFailed)) =>
        /\ Aborting
        /\ thrown # NoError
        /\ InSeq("databases_deployed", RunSteps)
        /\ ~InSeq("deployment_finalized", RunSteps)
        /\ report = NoValue
        /\ RunSnapshots = {}
        /\ CreatedDatabasesListed

\* a run with two databases aborted on the summary page
C28_Witness ==
    /\ pc = "aborted"
    /\ SummaryFailed
    /\ CountOfType(RunResources, "database") = 2
    /\ Len(cleanupLog) >= 2

----------------------------------------------------------------------------
\* calls a database attempt may end on with a rejection
IsPhase1Call(c) ==
    \/ c.op = "search"
    \/ c.op = "pages.create" /\ c.what = "parent_page"
    \/ c.op = "databases.create"

\* C29: No pacing after a failed creation.  In the database phase a pause
\* of 1000 ms comes only directly after an acknowledged databases.create; a
\* rejected search, parent-page creation or database creation is followed
\* by the next attempt, or by the next phase, with no pause, so k failures
\* in a row give k+1 attempts in a row.
C29_NoPauseAfterFailure ==
    \A x \in 1..Len(RunCalls) :
        /\ IsPause(RunCalls[x], DatabasePauseMs)
              => /\ x > 1
                 /\ IsDatabaseCreate(RunCalls[x - 1])
                 /\ RunCalls[x - 1].ok
        /\ (IsPhase1Call(RunCalls[x]) /\ ~RunCalls[x].ok /\ x < Len(RunCalls))
              => ~IsPause(RunCalls[x + 1], DatabasePauseMs)

\* two rejected attempts and a third attempt, one after the other
C29_Witness ==
    \E x \in 1..(Len(RunCalls) - 3) :
        /\ IsSearch(RunCalls[x]) /\ RunCalls[x].ok
        /\ IsDatabaseCreate(RunCalls[x + 1]) /\ ~RunCalls[x + 1].ok
        /\ IsSearch(RunCalls[x + 2]) /\ ~RunCalls[x + 2].ok
        /\ IsSearch(RunCalls[x + 3])

----------------------------------------------------------------------------
\* a client identity the compilation is to refuse
InvalidClient(name) ==
    \/ ClientChars[name] = << >>
    \/ validateClientName(ClientChars[name]) # "valid"

\* C21: Compile rejects an invalid client identity.  No build package is
\* written for a client that is empty, holds one of < > : " / \ | ? * or is,
\* whatever its case, one of notion, template, system, admin, api.
C21_InvalidClientNotBuilt ==
    \A x \in 1..Len(dist) : ~InvalidClient(dist[x].content.client)

----------------------------------------------------------------------------
\* the fields a schema declares
DeclaredFields(schema) ==
    IF "properties" \in DOMAIN schema THEN DOMAIN schema.properties ELSE {}

\* the kinds of property the remote service knows
NotionKinds ==
    { "title", "select", "number", "date", "checkbox", "rich_text", "url",
      "email", "phone_number", "created_time" }

\* the kind of a converted property
KindOf(property) == CHOOSE k \in DOMAIN property : TRUE

\* C26: convertSchemaToNotionProperties gives exactly the defaults Name
\* (title), Status (select) and Created (created_time) for a schema that
\* declares no field, its properties entry absent or empty, and otherwise
\* exactly one property of a known kind per declared field, under the same
\* name.
C26_DefaultsWhenNoFields ==
    tool = "converted" =>
        LET schema == options.schema
            properties == result.properties
        IN  /\ \A name \in DOMAIN properties :
                  /\ Cardinality(DOMAIN properties[name]) = 1
                  /\ KindOf(properties[name]) \in NotionKinds
            /\ IF DeclaredFields(schema) = {}
               THEN /\ DOMAIN properties = {"Name", "Status", "Created"}
                    /\ KindOf(properties["Name"]) = "title"
                    /\ KindOf(properties["Status"]) = "select"
                    /\ KindOf(properties["Created"]) = "created_time"
               ELSE DOMAIN properties = DeclaredFields(schema)

----------------------------------------------------------------------------
\* positions of the calls of fn in the log
FnCalls == {x \in 1..Len(retryLog) : retryLog[x].op = "fn"}

\* positions of the waits in the log
Waits == {x \in 1..Len(retryLog) : retryLog[x].op = "wait"}

RetrySettled == util = "settled" /\ retryArgs # NoValue

----------------------------------------------------------------------------
\* performHealthCheck has returned its report
FullReport == healthReport # NoValue /\ "overall_status" \in DOMAIN healthReport

ReportStatuses == {healthReport.checks[k].status : k \in DOMAIN healthReport.checks}

ReportCount(status) ==
    Cardinality({k \in DOMAIN healthReport.checks :
                    healthReport.checks[k].status = status})

\* the checks run in the order of the list, whatever the earlier ones
\* found, and the report aggregates the five of them
HealthAggregation ==
    /\ Len(checkLog) <= Len(CheckNames)
    /\ \A x \in 1..Len(checkLog) : checkLog[x] = CheckNames[x]
    /\ FullReport =>
          /\ checkLog = CheckNames
          /\ healthReport.checks = checks
          /\ DOMAIN healthReport.checks = {CheckNames[x] : x \in 1..5}
          /\ ReportStatuses \subseteq {"healthy", "warning", "unhealthy"}
          /\ healthReport.overall_status =
                IF "unhealthy" \in ReportStatuses THEN "unhealthy"
                ELSE IF "warning" \in ReportStatuses THEN "warning"
                ELSE "healthy"
          /\ LET n == 100 * ReportCount("healthy") + 50 * ReportCount("warning")
                 score == healthReport.overall_score
             IN  10 * score - 5 <= 2 * n /\ 2 * n < 10 * score + 5

HealthExited == util = "exited" /\ FullReport

\* C30: Health check aggregation.  performHealthCheck runs the five checks
\* in the order connectivity, database access, data integrity, API
\* performance, error rates, none is left pending, the overall status is the
\* worst of the five, the score is round((100*healthy + 50*warning) / 5),
\* and the CLI exits with 0 exactly when the overall status is 'healthy'.
C30_HealthCheckAggregation ==
    /\ HealthAggregation
    /\ HealthExited =>
          (exitCode = 0 <=> healthReport.overall_status = "healthy")

\* C30, amended: as above, and the CLI exits with 0 exactly when the overall
\* status is 'healthy' and health-check-report.json was written, with 1 in
\* every other case.
C30_HealthCheckAggregationAmended ==
    /\ HealthAggregation
    /\ HealthExited =>
          /\ exitCode \in {0, 1}
          /\ exitCode = 0 <=> (/\ healthReport.overall_status = "healthy"
                               /\ reportFile = healthReport)

\* the first check failed, the second warned, the other three passed
C30_Witness ==
    /\ HealthExited
    /\ checks["notion_connectivity"].status = "unhealthy"
    /\ checks["database_access"].status = "warning"
    /\ ReportCount("healthy") = 3
    /\ healthReport.overall_status = "unhealthy"
    /\ healthReport.overall_score = 70
    /\ reportFile = healthReport
    /\ exitCode = 1

====
